---- MODULE Spec2Model ----
(***************************************************************************)
(* The host-side client of the sandbox subprocess: the RPC engine          *)
(* (codepod/_rpc.py, RpcClient) with its callback-interleaving read loop   *)
(* and its registry of extension handlers, talking to the subprocess over  *)
(* newline-delimited JSON on the subprocess's stdin and stdout.            *)
(*                                                                         *)
(* Text that the code inspects (the prefix of an id, the stdin an          *)
(* extension upper-cases) is a sequence of one-character strings; text it  *)
(* only compares or passes on is a TLA+ string.                            *)
(***************************************************************************)
EXTENDS Integers, Sequences, FiniteSets, TLC

VARIABLES
    proc,                \* self._proc: "none" (None) or "running" (a Popen)
    next_id,             \* self._next_id
    extension_handlers,  \* self._extension_handlers: name -> callable
    pc,                  \* where call() is: "idle" (not in call) or "reading"
    req_id,              \* the local req_id of the call in flight
    stdin_buf,           \* lines written to proc.stdin that no flush delivered
    stdin_wire,          \* lines delivered to the subprocess since the latest call began
    stdin_broken,        \* the subprocess no longer reads its stdin (EPIPE)
    stdout,              \* lines the subprocess wrote that call() has not read
    stdout_closed,       \* the subprocess closed its stdout
    outcome,             \* how the latest call() ended
    read_log,            \* history: the lines the call in flight has read, and how
    invoked,             \* history: handler invocations made by the call in flight
    emitted,             \* history: number of lines the subprocess has written
    regs,                \* history: number of register_extension_handler invocations
    requests,            \* history: every request line the engine has written
    stack,               \* the calls suspended in a handler that issued a call
    sessions,            \* the Sandbox objects made: the _sandbox_id of each
    client,              \* Sandbox._client of each Sandbox made: the number of its RpcClient
    spawned,             \* history: number of subprocesses started (RpcClient.start)
    given_extensions,    \* history: the extensions argument of the root's constructor
    op,                  \* the Sandbox operation in progress, blocked in call()
    fres,                \* how the latest Sandbox operation ended
    files,               \* MemoryFS._files: normalized path -> bytes
    file_order,          \* the keys of MemoryFS._files in the order the dict holds them
    writable,            \* MemoryFS._writable
    files0,              \* history: _files as the constructor left it
    wlog,                \* history: the write_file invocations, in order
    vres,                \* how the latest MemoryFS operation ended
    flat                 \* the dict the latest _to_flat_files() returned to the host

\* RpcClient and the two ends of its pipe.
engineVars == <<proc, next_id, extension_handlers, pc, req_id, stdin_buf, stdin_wire,
                stdin_broken, stdout, stdout_closed, outcome, read_log,
                invoked, emitted, regs, requests, stack>>

\* The Sandbox objects that share the RpcClient.
facadeVars == <<sessions, client, spawned, given_extensions, op, fres>>

\* One MemoryFS.
vfsVars == <<files, file_order, writable, files0, wlog, vres, flat>>

vars == <<proc, next_id, extension_handlers, pc, req_id, stdin_buf, stdin_wire,
          stdin_broken, stdout, stdout_closed, outcome, read_log,
          invoked, emitted, regs, requests, stack, sessions, client, spawned,
          given_extensions, op, fres, files, file_order, writable, files0, wlog, vres, flat>>

---------------------------------------------------------------------------
(* Bounds of the model. *)

MaxLines == 3     \* lines the subprocess writes in one run
MaxCalls == 2     \* requests written in one run
MaxRegs == 1      \* register_extension_handler invocations in one run
MaxOps == 3       \* requests written in one run of the Sandbox operations
MaxWrites == 2    \* write_file invocations in one run
MaxPath == 4      \* characters of a path handed to _normalize

---------------------------------------------------------------------------
(* JSON values on the wire. *)

CallbackErrorCode == -32603

IntId(n) == [t |-> "int", n |-> n, s |-> <<>>]
StrId(s) == [t |-> "str", n |-> 0, s |-> s]
NoId == [t |-> "none", n |-> 0, s |-> <<>>]

CbPrefix == <<"c", "b", "_">>
Cb1 == StrId(<<"c", "b", "_", "1">>)
Cb2 == StrId(<<"c", "b", "_", "2">>)

\* str.startswith
StartsWith(s, p) == Len(s) >= Len(p) /\ SubSeq(s, 1, Len(p)) = p

\* The params of a callback: absent, a JSON object (has = its keys), or some
\* other JSON value.
ParamKeys == {"name", "args", "stdin", "env", "cwd"}
Params(t, has, name, args, stdin, env, cwd) ==
    [t |-> t, has |-> has, name |-> name, args |-> args, stdin |-> stdin,
     env |-> env, cwd |-> cwd]
NoParams == Params("absent", {}, "", <<>>, <<>>, {}, "")
ListParams == Params("list", {}, "", <<>>, <<>>, {}, "")
EmptyParams == Params("dict", {}, "", <<>>, <<>>, {}, "")

\* The error member of a line: absent, null, a {code, message} object, or a
\* JSON string.
Err(t, code, message) == [t |-> t, code |-> code, message |-> message]
NoErr == Err("absent", 0, "")
NullErr == Err("null", 0, "")
StrErr == Err("string", 0, "")
ErrObj(code, message) == Err("object", code, message)

NoResult == "None"

\* One line of the subprocess's stdout. dec: "object" (decodes to a JSON
\* object) or "garbage" (json.loads raises).
Line(dec, hasMethod, method, id, params, err, result) ==
    [dec |-> dec, hasMethod |-> hasMethod, method |-> method, id |-> id,
     params |-> params, err |-> err, result |-> result]

CallbackLine(id, method, params) ==
    Line("object", TRUE, method, id, params, NoErr, NoResult)
ResponseLine(id, result, err) ==
    Line("object", FALSE, "", id, NoParams, err, result)
GarbageLine == Line("garbage", FALSE, "", NoId, NoParams, NoErr, NoResult)

\* What a handler returns: enc says whether json.dumps can encode it.
Value(enc, out, exitCode) == [enc |-> enc, stdout |-> out, exitCode |-> exitCode]
NoValue == Value(TRUE, <<>>, 0)

\* The params of a request, as far as a Sandbox sets them: the key sandboxId
\* is there or not.
CallParams(has, sandboxId) == [has |-> has, sandboxId |-> sandboxId]
NoCallParams == CallParams({}, "None")

\* One line written to the subprocess's stdin.
OutLine(kind, id, method, params, result, code, message) ==
    [kind |-> kind, id |-> id, method |-> method, params |-> params,
     result |-> result, code |-> code, message |-> message]

\* How a call() ended.
Outcome(kind, value, code, message) ==
    [kind |-> kind, value |-> value, code |-> code, message |-> message]
NoOutcome == Outcome("none", NoResult, 0, "")

---------------------------------------------------------------------------
(* The callables a host may register, and what each does when invoked. *)

UpperChar(c) ==
    CASE c = "h" -> "H"
      [] c = "e" -> "E"
      [] c = "l" -> "L"
      [] c = "o" -> "O"
      [] OTHER -> c

\* str.upper
Upper(s) == [i \in 1..Len(s) |-> UpperChar(s[i])]

Handlers == {"upper", "boom", "bytes"}

\* handler(args=..., stdin=..., env=..., cwd=...): "upper" is the handler of
\* the extension tests, "boom" raises, "bytes" returns a value json.dumps
\* cannot encode.
Invoke(handler, args, stdin, env, cwd) ==
    CASE handler = "upper" ->
            [raised |-> FALSE, value |-> Value(TRUE, Upper(stdin), 0), message |-> ""]
      [] handler = "boom" ->
            [raised |-> TRUE, value |-> NoValue, message |-> "boom"]
      [] OTHER ->
            [raised |-> FALSE, value |-> Value(FALSE, stdin, 0), message |-> ""]

Invocation(name, handler, args, stdin, env, cwd) ==
    [name |-> name, handler |-> handler, args |-> args, stdin |-> stdin,
     env |-> env, cwd |-> cwd]

---------------------------------------------------------------------------
(* RpcClient: the pure parts of call() and _handle_callback(). *)

\* Mutant: a call spends two ids.
NextId_Skips(n) == n + 2

\* Mutant: the counter is not advanced.
NextId_Stuck(n) == n

\* "self._next_id += 1"
NextId(n) == n + 1

\* The request line call() writes.
Request(id, method, params) ==
    OutLine("request", IntId(id), method, params, NoValue, 0, <<"", "">>)

\* The reply line _send_callback_result writes.
SendCallbackResult(cb_id, result) ==
    OutLine("result", cb_id, "", NoCallParams, result, 0, <<"", "">>)

\* Mutant: the error reply carries another JSON-RPC error code.
SendCallbackError_InvalidRequest(cb_id, message) ==
    OutLine("error", cb_id, "", NoCallParams, NoValue, -32600, message)

\* The reply line _send_callback_error writes.
SendCallbackError(cb_id, message) ==
    OutLine("error", cb_id, "", NoCallParams, NoValue, CallbackErrorCode, message)

\* Mutant: the default is used whatever the params hold.
Get_AlwaysDefault(params, key, default) == default

\* dict.get(key, default) on the params of a callback.
Get(params, key, default) ==
    IF key \in params.has THEN params[key] ELSE default

\* Mutant: every line is a callback request, no line read ends the call.
IsCallbackRequest_Always(msg) == TRUE

\* Mutant: no line is a callback request, each line read ends the call.
IsCallbackRequest_Never(msg) == FALSE

\* Mutant: the prefix of the id alone decides.
IsCallbackRequest_PrefixOnly(msg) ==
    /\ msg.id.t = "str"
    /\ StartsWith(msg.id.s, CbPrefix)

\* "Callback request from server?": the test of call()'s read loop.
IsCallbackRequest(msg) ==
    /\ msg.hasMethod
    /\ msg.id.t = "str"
    /\ StartsWith(msg.id.s, CbPrefix)

\* Python truth of the error member: None is false, a non-empty object or
\* string is true.
Truthy(err) == err.t \in {"object", "string"}

\* Mutant: a line that has a result returns it, error or not.
ResponseOutcome_ResultFirst(msg) ==
    IF msg.result # NoResult \/ msg.err.t \in {"absent", "null"}
    THEN Outcome("returned", msg.result, 0, "")
    ELSE Outcome("RpcError", NoResult, msg.err.code, msg.err.message)

\* "Normal response to our request": raise RpcError or return the result.
\* A true error that is no {code, message} object fails at ["code"].
ResponseOutcome(msg) ==
    IF msg.err.t # "absent" /\ Truthy(msg.err)
    THEN IF msg.err.t = "object"
         THEN Outcome("RpcError", NoResult, msg.err.code, msg.err.message)
         ELSE Outcome("TypeError", NoResult, 0, "string indices must be integers")
    ELSE Outcome("returned", msg.result, 0, "")

\* Mutant: an empty read ends the loop with no result instead of raising.
EofOutcome_ReturnsNone == Outcome("returned", NoResult, 0, "")

\* readline() returned nothing: the subprocess closed its stdout.
EofOutcome == Outcome("RuntimeError", NoResult, 0, "Server closed connection")

\* call() on a client that has no subprocess.
NotStartedOutcome == Outcome("RuntimeError", NoResult, 0, "RPC client not started")

\* json.loads on a line that is no JSON text.
UndecodableOutcome(msg) == Outcome("JSONDecodeError", NoResult, 0, "Expecting value")

\* A write and flush on a stdin the subprocess no longer reads.
BrokenPipeOutcome == Outcome("BrokenPipeError", NoResult, 0, "Broken pipe")

\* Mutant: every callback method is dispatched to the extensions.
IsExtensionInvoke_AnyMethod(method) == TRUE

\* The one callback method, "extension.invoke".
IsExtensionInvoke(method) == method = "extension.invoke"

\* Mutant: the message does not say which extension is missing.
NoHandlerMessage_Anonymous(name) == <<"No handler for extension", "">>

\* f"No handler for extension: {name}"
NoHandlerMessage(name) == <<"No handler for extension: ", name>>

\* The try block of _handle_callback. written: the lines handed to
\* stdin.write; raised: the block raised (the handler, params.get, json.dumps
\* or the flush of a reply when the pipe is broken).
TryBody(msg, handlers, broken) ==
    LET cb_id == msg.id
        method == msg.method
        params == IF msg.params.t = "absent" THEN EmptyParams ELSE msg.params
        name == Get(params, "name", "")
        args == Get(params, "args", <<>>)
        stdin == Get(params, "stdin", <<>>)
        env == Get(params, "env", {})
        cwd == Get(params, "cwd", "/")
        none == [written |-> <<>>, calls |-> <<>>, raised |-> FALSE, message |-> <<"", "">>]
        sent(line) == [none EXCEPT !.written = <<line>>, !.raised = broken,
                                   !.message = <<"Broken pipe", "">>]
    IN  IF IsExtensionInvoke(method)
        THEN IF params.t # "dict"
             THEN [none EXCEPT !.raised = TRUE,
                               !.message = <<"'list' object has no attribute 'get'", "">>]
             ELSE IF name \notin DOMAIN handlers
             THEN sent(SendCallbackError(cb_id, NoHandlerMessage(name)))
             ELSE LET h == handlers[name]
                      r == Invoke(h, args, stdin, env, cwd)
                      call == <<Invocation(name, h, args, stdin, env, cwd)>>
                  IN  IF r.raised
                      THEN [none EXCEPT !.calls = call, !.raised = TRUE,
                                        !.message = <<r.message, "">>]
                      ELSE IF ~r.value.enc
                      THEN [none EXCEPT !.calls = call, !.raised = TRUE,
                                        !.message = <<"Object of type bytes is not JSON serializable", "">>]
                      ELSE [sent(SendCallbackResult(cb_id, r.value)) EXCEPT !.calls = call]
        ELSE sent(SendCallbackError(cb_id, <<"Unknown callback method: ", method>>))

\* The callback is dispatched to a handler that itself issues a call on the
\* client while it runs.
Reenters(msg, handlers) ==
    LET params == IF msg.params.t = "absent" THEN EmptyParams ELSE msg.params
        name == Get(params, "name", "")
    IN  /\ IsExtensionInvoke(msg.method)
        /\ params.t = "dict"
        /\ name \in DOMAIN handlers
        /\ handlers[name] = "reenter"

\* Mutant: an Exception of the try block ends the pending call.
HandleCallback_LetsExceptionEscape(msg, handlers, broken) ==
    LET t == TryBody(msg, handlers, broken)
    IN  [written |-> t.written, calls |-> t.calls, escaped |-> t.raised,
         exc |-> IF t.raised THEN Outcome("Exception", NoResult, 0, "handler")
                 ELSE NoOutcome]

\* Mutant: after the reply the request is written once more.
HandleCallback_RequestAgain(msg, handlers, broken) ==
    LET t == TryBody(msg, handlers, broken)
    IN  [written |-> (IF t.raised
                      THEN t.written \o <<SendCallbackError(msg.id, t.message)>>
                      ELSE t.written) \o <<Request(0, "retry", NoCallParams)>>,
         calls |-> t.calls, escaped |-> FALSE, exc |-> NoOutcome]

\* Mutant: an Exception of the try block is swallowed without a reply.
HandleCallback_SwallowsException(msg, handlers, broken) ==
    LET t == TryBody(msg, handlers, broken)
    IN  [written |-> t.written, calls |-> t.calls, escaped |-> FALSE,
         exc |-> NoOutcome]

\* _handle_callback: the try block, and on any Exception one more
\* _send_callback_error, whose own failure escapes to call().
HandleCallback(msg, handlers, broken) ==
    LET t == TryBody(msg, handlers, broken)
    IN  IF ~t.raised
        THEN [written |-> t.written, calls |-> t.calls, escaped |-> FALSE,
              exc |-> NoOutcome]
        ELSE [written |-> t.written \o <<SendCallbackError(msg.id, t.message)>>,
              calls |-> t.calls, escaped |-> broken,
              exc |-> IF broken THEN BrokenPipeOutcome ELSE NoOutcome]

---------------------------------------------------------------------------
(* Sandbox: the operations built on RpcClient.call(). *)

\* self._sandbox_id of the root Sandbox: None.
RootId == "None"

\* The ids the subprocess gives to forked sandboxes.
SandboxIds == {"s1"}

\* A result that is the JSON object {"sandboxId": sid}.
ForkResult(sid) == CASE sid = "s1" -> "{sandboxId: s1}"

\* result["sandboxId"] in Sandbox.fork: the result has that key, or the
\* subscript raises.
HasSandboxId(result) == \E sid \in SandboxIds : result = ForkResult(sid)
SandboxIdOf(result) == CHOOSE sid \in SandboxIds : result = ForkResult(sid)

\* Sandbox._with_id, Files._params and Commands.run: the key sandboxId is
\* added for a Sandbox that has an id.
WithId(sandbox_id) ==
    IF sandbox_id # RootId THEN CallParams({"sandboxId"}, sandbox_id) ELSE NoCallParams

\* The methods whose params go through _with_id, _params or run.
PlainMethods ==
    { "run", "files.read", "files.write", "files.list", "files.mkdir", "files.rm",
      "files.stat", "mount", "snapshot.create", "snapshot.restore",
      "persistence.export", "persistence.import" }

\* The params each operation hands to call().
OpParams(method, sandbox_id) ==
    CASE method = "kill" -> NoCallParams
      [] method = "sandbox.destroy" -> CallParams({"sandboxId"}, sandbox_id)
      [] OTHER -> WithId(sandbox_id)

\* A Sandbox operation: the method it calls, the _sandbox_id of the Sandbox,
\* and whether __exit__ runs it.
Op(method, sandbox_id, exit) == [method |-> method, sess |-> sandbox_id, exit |-> exit]
NoOp == Op("none", RootId, FALSE)

\* How a Sandbox operation ended: kind is "returned" or "raised", exc the
\* class of the exception.
FRes(o, kind, exc, message) ==
    [method |-> o.method, sess |-> o.sess, exit |-> o.exit, kind |-> kind,
     exc |-> exc, message |-> message]
NoFRes == FRes(NoOp, "none", "", "")

\* Mutant: destroy() goes to the subprocess for every Sandbox.
DestroyRefused_Never(sandbox_id) == FALSE

\* Sandbox.destroy: "if self._sandbox_id is None: raise RuntimeError".
DestroyRefused(sandbox_id) == sandbox_id = RootId

\* Mutant: the teardown paths swallow only the errors the subprocess reports.
IsException_OnlyRpcError(kind) == kind = "RpcError"

\* "except Exception": every exception call() raises here is an Exception.
IsException(kind) ==
    kind \in {"RuntimeError", "RpcError", "JSONDecodeError", "TypeError",
              "BrokenPipeError", "KeyError"}

\* kill() and the destroy() of __exit__ run call() inside try/except
\* Exception: pass.
Swallows(o) == o.method = "kill" \/ (o.method = "sandbox.destroy" /\ o.exit)

\* How the operation o ends when its call() ended with out.
FacadeResult(o, out) ==
    IF out.kind = "returned"
    THEN IF o.method = "sandbox.fork" /\ ~HasSandboxId(out.value)
         THEN FRes(o, "raised", "TypeError", "string indices must be integers")
         ELSE FRes(o, "returned", "", "")
    ELSE IF Swallows(o) /\ IsException(out.kind)
         THEN FRes(o, "returned", "", "")
         ELSE FRes(o, "raised", out.kind, out.message)

\* The Sandbox objects after the operation o: the constructor of the root
\* and fork() make one when their call() returned.
SessionsAfter(o, out, made) ==
    IF FacadeResult(o, out).kind # "returned"
    THEN made
    ELSE CASE o.method = "create" -> made \cup {RootId}
           [] o.method = "sandbox.fork" -> made \cup {SandboxIdOf(out.value)}
           [] OTHER -> made

\* Mutant: fork() makes its Sandbox by the public constructor, which makes
\* and starts an RpcClient of its own.
ClientAfter_ForkMakesClient(o, out, held, n) ==
    IF FacadeResult(o, out).kind # "returned"
    THEN held
    ELSE CASE o.method = "create" ->
                [s \in DOMAIN held \cup {RootId} |-> IF s = RootId THEN n ELSE held[s]]
           [] o.method = "sandbox.fork" ->
                [s \in DOMAIN held \cup {SandboxIdOf(out.value)} |->
                    IF s = SandboxIdOf(out.value) THEN n + 1 ELSE held[s]]
           [] OTHER -> held

\* self._client of the Sandbox objects after the operation o: the
\* constructor of the root holds the RpcClient it made and started, the n-th
\* of the run; fork() hands its own to the Sandbox it makes
\* ("_client=self._client"), whose constructor returns before it makes one.
ClientAfter(o, out, held, n) ==
    IF FacadeResult(o, out).kind # "returned"
    THEN held
    ELSE CASE o.method = "create" ->
                [s \in DOMAIN held \cup {RootId} |-> IF s = RootId THEN n ELSE held[s]]
           [] o.method = "sandbox.fork" ->
                [s \in DOMAIN held \cup {SandboxIdOf(out.value)} |->
                    IF s = SandboxIdOf(out.value) THEN held[o.sess] ELSE held[s]]
           [] OTHER -> held

\* Mutant: destroy() stops the client as kill() does.
ProcAfter_AnyTeardown(o, out, p) ==
    IF o.method \in {"kill", "sandbox.destroy"} THEN "none" ELSE p

\* kill() goes on to self._client.stop() unless its call() raised past the
\* except clause; stop() leaves self._proc None.
ProcAfter(o, out, p) ==
    IF o.method = "kill" /\ FacadeResult(o, out).kind = "returned" THEN "none" ELSE p

---------------------------------------------------------------------------
(* MemoryFS: the in-memory VirtualFileSystem. *)

\* How a MemoryFS operation ended: kind is "ok" or the class of the
\* exception raised; data the bytes returned.
VRes(o, path, kind, data) == [op |-> o, path |-> path, kind |-> kind, data |-> data]
NoVRes == VRes("none", <<>>, "none", <<>>)

\* A path is a str, here the sequence of its characters. str.split("/").
RECURSIVE Split(_)
Split(s) ==
    IF s = <<>>
    THEN << <<>> >>
    ELSE LET rest == Split(Tail(s))
         IN  IF Head(s) = "/"
             THEN << <<>> >> \o rest
             ELSE << <<Head(s)>> \o Head(rest) >> \o Tail(rest)

\* "/".join(parts)
RECURSIVE Join(_)
Join(parts) ==
    IF parts = <<>>
    THEN <<>>
    ELSE IF Len(parts) = 1
    THEN parts[1]
    ELSE parts[1] \o <<"/">> \o Join(Tail(parts))

\* Mutant: only the empty segments are dropped.
Normalize_KeepsDots(path) ==
    Join(SelectSeq(Split(path), LAMBDA p : p # <<>>))

\* _normalize: the segments that are neither empty nor ".", joined by "/".
Normalize(path) ==
    Join(SelectSeq(Split(path), LAMBDA p : p # <<>> /\ p # <<".">>))

\* File contents as handed in: bytes, or a str given by its code points.
Bytes(v) == [t |-> "bytes", v |-> v]
Str(v) == [t |-> "str", v |-> v]

\* str.encode("utf-8"), for code points below 2048.
RECURSIVE Utf8(_)
Utf8(cps) ==
    IF cps = <<>>
    THEN <<>>
    ELSE LET c == Head(cps)
         IN  (IF c < 128 THEN <<c>> ELSE <<192 + (c \div 64), 128 + (c % 64)>>)
             \o Utf8(Tail(cps))

\* "if isinstance(data, str): data = data.encode("utf-8")"
Encode(data) == IF data.t = "str" THEN Utf8(data.v) ELSE data.v

\* self._files[path] = data
Store(fs, path, bytes) ==
    [p \in DOMAIN fs \cup {path} |-> IF p = path THEN bytes ELSE fs[p]]

\* A dict keeps its keys in insertion order; assigning to a key it has
\* leaves the key where it is.
Insert(order, path) ==
    IF \E i \in 1..Len(order) : order[i] = path THEN order ELSE Append(order, path)

\* MemoryFS.__init__: the order of the keys it leaves.
RECURSIVE ConstructOrder(_, _)
ConstructOrder(seed, order) ==
    IF seed = <<>>
    THEN order
    ELSE ConstructOrder(Tail(seed), Insert(order, Normalize(Head(seed)[1])))

\* MemoryFS.__init__: each entry of files, in order, is encoded and stored
\* under its normalized path.
RECURSIVE Construct(_, _)
Construct(seed, fs) ==
    IF seed = <<>>
    THEN fs
    ELSE Construct(Tail(seed), Store(fs, Normalize(Head(seed)[1]), Encode(Head(seed)[2])))

\* Mutant: no path is an inferred directory.
IsDir_Never(fs, path) == FALSE

\* MemoryFS._is_dir: some stored path starts with path + "/".
IsDir(fs, path) == \E f \in DOMAIN fs : StartsWith(f, path \o <<"/">>)

\* DirEntry(name=..., type=...)
DirEntry(name, type) == [name |-> name, type |-> type]

\* s[n:]
Drop(s, n) == SubSeq(s, n + 1, Len(s))

\* The loop of MemoryFS.readdir over self._files: seen holds, in the order
\* of first sight, each first segment below prefix with the type its first
\* sight gave it; a later, deeper path does not change a type.
RECURSIVE ReaddirSeen(_, _, _)
ReaddirSeen(order, prefix, seen) ==
    IF order = <<>>
    THEN seen
    ELSE LET fpath == Head(order)
             rest == Drop(fpath, Len(prefix))
             parts == Split(rest)
             name == parts[1]
             next == IF ~StartsWith(fpath, prefix) \/ rest = <<>>
                     THEN seen
                     ELSE IF \E i \in 1..Len(seen) : seen[i].name = name
                     THEN seen
                     ELSE Append(seen, DirEntry(name, IF Len(parts) > 1 THEN "dir" ELSE "file"))
         IN  ReaddirSeen(Tail(order), prefix, next)

\* MemoryFS.readdir
ReaddirEntries(order, path) ==
    LET p == Normalize(path)
        prefix == IF p # <<>> THEN p \o <<"/">> ELSE <<>>
    IN  ReaddirSeen(order, prefix, <<>>)

\* FileStat(type=..., size=...)
FileStat(type, size) == [type |-> type, size |-> size]

\* MemoryFS.stat
StatResult(fs, order, path) ==
    LET p == Normalize(path)
    IN  IF p = <<>>
        THEN VRes("stat", path, "ok", FileStat("dir", Len(ReaddirEntries(order, <<>>))))
        ELSE IF p \in DOMAIN fs
        THEN VRes("stat", path, "ok", FileStat("file", Len(fs[p])))
        ELSE IF IsDir(fs, p)
        THEN VRes("stat", path, "ok", FileStat("dir", Len(ReaddirEntries(order, p))))
        ELSE VRes("stat", path, "FileNotFoundError", <<>>)

\* MemoryFS.exists
ExistsResult(fs, path) ==
    LET p == Normalize(path)
    IN  IF p = <<>>
        THEN VRes("exists", path, "ok", TRUE)
        ELSE IF p \in DOMAIN fs
        THEN VRes("exists", path, "ok", TRUE)
        ELSE VRes("exists", path, "ok", IsDir(fs, p))

\* MemoryFS.read_file
ReadFileResult(fs, path) ==
    LET p == Normalize(path)
    IN  IF p \in DOMAIN fs
        THEN VRes("read_file", path, "ok", fs[p])
        ELSE IF IsDir(fs, p)
        THEN VRes("read_file", path, "IsADirectoryError", <<>>)
        ELSE VRes("read_file", path, "FileNotFoundError", <<>>)

\* MemoryFS._to_flat_files: dict(self._files), a copy of the store.
MemoryToFlatFiles(fs) == [p \in DOMAIN fs |-> fs[p]]

\* A dict in the hands of the host: obj tells which object it is, "new" for
\* a dict of its own, "store" for the _files of the MemoryFS; items is what
\* it holds.
FlatDict(obj, items) == [obj |-> obj, items |-> items]
NoFlat == FlatDict("none", << >>)

\* Mutant: _to_flat_files returns self._files itself.
ReturnedFlat_IsStore(fs) == FlatDict("store", fs)

\* The object MemoryFS._to_flat_files returns: dict(...) makes a new dict
\* with the items of the store.
ReturnedFlat(fs) == FlatDict("new", MemoryToFlatFiles(fs))

\* An assignment into the store shows in every dict that is the store's own
\* object, and in no other.
FlatAfterWrite(held, fs) ==
    IF held.obj = "store" THEN FlatDict("store", fs) ELSE held

\* The base64 alphabet.
B64Alphabet ==
    << "A", "B", "C", "D", "E", "F", "G", "H", "I", "J", "K", "L", "M",
       "N", "O", "P", "Q", "R", "S", "T", "U", "V", "W", "X", "Y", "Z",
       "a", "b", "c", "d", "e", "f", "g", "h", "i", "j", "k", "l", "m",
       "n", "o", "p", "q", "r", "s", "t", "u", "v", "w", "x", "y", "z",
       "0", "1", "2", "3", "4", "5", "6", "7", "8", "9", "+", "/" >>

\* base64 of one group of one to three bytes: four characters, padded.
B64Group(b) ==
    LET n == b[1] * 65536 + (IF Len(b) >= 2 THEN b[2] * 256 ELSE 0)
                          + (IF Len(b) >= 3 THEN b[3] ELSE 0)
        c1 == B64Alphabet[(n \div 262144) + 1]
        c2 == B64Alphabet[((n \div 4096) % 64) + 1]
        c3 == B64Alphabet[((n \div 64) % 64) + 1]
        c4 == B64Alphabet[(n % 64) + 1]
    IN  CASE Len(b) = 1 -> <<c1, c2, "=", "=">>
          [] Len(b) = 2 -> <<c1, c2, c3, "=">>
          [] OTHER -> <<c1, c2, c3, c4>>

\* base64.b64encode(v).decode("ascii")
RECURSIVE Base64(_)
Base64(b) ==
    IF b = <<>>
    THEN <<>>
    ELSE IF Len(b) <= 3
    THEN B64Group(b)
    ELSE B64Group(SubSeq(b, 1, 3)) \o Base64(SubSeq(b, 4, Len(b)))

\* _encode_files_for_rpc: each value base64-encoded under its key.
EncodeFilesForRpc(flat_files) == [k \in DOMAIN flat_files |-> Base64(flat_files[k])]

\* VirtualFileSystem._walk on a MemoryFS: the entries of readdir(prefix) in
\* order; a dir is walked, any other entry is read into out. A read_file
\* that raises ends the walk with its exception.
RECURSIVE Walk(_, _, _, _)
RECURSIVE WalkEntries(_, _, _, _, _)
WalkEntries(fs, order, prefix, entries, out) ==
    IF entries = <<>> \/ out.kind # "ok"
    THEN out
    ELSE LET entry == Head(entries)
             subpath == IF prefix # <<>> THEN prefix \o <<"/">> \o entry.name ELSE entry.name
             read == ReadFileResult(fs, subpath)
             next == IF entry.type = "dir"
                     THEN Walk(fs, order, subpath, out)
                     ELSE IF read.kind = "ok"
                     THEN [out EXCEPT !.files = Store(out.files, subpath, read.data)]
                     ELSE [out EXCEPT !.kind = read.kind]
         IN  WalkEntries(fs, order, prefix, Tail(entries), next)

Walk(fs, order, prefix, out) ==
    WalkEntries(fs, order, prefix, ReaddirEntries(order, prefix), out)

\* VirtualFileSystem._to_flat_files, the generic walk from the root.
WalkToFlatFiles(fs, order) == Walk(fs, order, <<>>, [kind |-> "ok", files |-> << >>])

\* Mutant: write_file does not look at the writable flag.
WriteRefused_Never(w) == FALSE

\* MemoryFS.write_file: "if not self._writable: raise PermissionError".
WriteRefused(w) == ~w

\* Mutant: write_file stores under the path as given.
WriteKey_AsGiven(path) == path

\* MemoryFS.write_file: "path = _normalize(path)", the key it stores under.
WriteKey(path) == Normalize(path)

\* MemoryFS.write_file: the store after the call.
WriteFileStore(fs, w, path, data) ==
    IF WriteRefused(w) THEN fs ELSE Store(fs, WriteKey(path), Encode(data))

\* MemoryFS.write_file: the order of the keys after the call.
WriteFileOrder(order, w, path) ==
    IF WriteRefused(w) THEN order ELSE Insert(order, WriteKey(path))

\* MemoryFS.write_file: how the call ends.
WriteFileResult(w, path) ==
    IF WriteRefused(w)
    THEN VRes("write_file", path, "PermissionError", <<>>)
    ELSE VRes("write_file", path, "ok", <<>>)

---------------------------------------------------------------------------
(* The inputs of a run. *)

Methods == {"run"}

\* (name, callable) pairs a host registers.
Registrations == {<<"upper", "upper">>, <<"boom", "boom">>, <<"bytes", "bytes">>}

FullParams(name) ==
    Params("dict", ParamKeys, name, <<"-v">>, <<"h", "e", "l", "l", "o">>, {<<"K", "V">>}, "/tmp")
NameParams(name) == Params("dict", {"name"}, name, <<>>, <<>>, {}, "")

\* An Extension: its name and its command, "None" for one that has none.
Extension(name, command) == [name |-> name, command |-> command]

\* The extensions lists a root Sandbox is made with.
ExtensionLists == { <<>>, <<Extension("upper", "upper")>> }

\* "hasCommand": ext.command is not None
HasCommand(ext) == ext.command # "None"

\* The entry of ext_specs made for ext, as far as the handlers go.
ExtSpec(ext) == [name |-> ext.name, hasCommand |-> HasCommand(ext)]

\* create_params of the constructor: the key extensions is set, to one spec
\* for each extension in order, when the list is not empty.
CreateParams(extensions) ==
    [has |-> IF extensions # <<>> THEN {"extensions"} ELSE {},
     sandboxId |-> "None",
     extensions |-> [i \in 1..Len(extensions) |-> ExtSpec(extensions[i])]]

\* Mutant: the constructor registers no handler.
RegisterAll_None(extensions, handlers) == handlers

\* "for ext in extensions: if ext.command is not None:
\* register_extension_handler(ext.name, ext.command)"
RECURSIVE RegisterAll(_, _)
RegisterAll(extensions, handlers) ==
    IF extensions = <<>>
    THEN handlers
    ELSE LET ext == Head(extensions)
             next == IF ext.command # "None"
                     THEN [n \in DOMAIN handlers \cup {ext.name} |->
                              IF n = ext.name THEN ext.command ELSE handlers[n]]
                     ELSE handlers
         IN  RegisterAll(Tail(extensions), next)

\* The lines the subprocess may write to a Sandbox.
FacadeLines ==
    { ResponseLine(IntId(1), "r1", NoErr),
      ResponseLine(IntId(1), ForkResult("s1"), NoErr),
      ResponseLine(IntId(1), "r1", ErrObj(1, "ENOENT")),
      CallbackLine(Cb1, "extension.invoke", FullParams("upper")),
      GarbageLine }

\* The lines the subprocess may write.
ServerLines ==
    { CallbackLine(Cb1, "extension.invoke", FullParams("upper")),
      CallbackLine(Cb2, "extension.invoke", NameParams("boom")),
      CallbackLine(Cb1, "extension.invoke", NameParams("bytes")),
      CallbackLine(Cb1, "fs.read", FullParams("upper")),
      CallbackLine(Cb2, "extension.invoke", ListParams),
      CallbackLine(IntId(1), "notify", NoParams),
      CallbackLine(StrId(<<"c", "b">>), "extension.invoke", FullParams("upper")),
      ResponseLine(IntId(1), "r1", NoErr),
      ResponseLine(IntId(2), "r2", NoErr),
      ResponseLine(IntId(1), "r1", ErrObj(1, "ENOENT")),
      ResponseLine(IntId(1), "r1", NullErr),
      ResponseLine(IntId(1), "r1", StrErr),
      ResponseLine(Cb1, "r1", NoErr),
      GarbageLine }

---------------------------------------------------------------------------
(* The state machine. *)

\* RpcClient.__init__, with no Sandbox made yet.
RpcInit ==
    /\ proc = "none"
    /\ next_id = 1
    /\ extension_handlers = << >>
    /\ pc = "idle"
    /\ req_id = 0
    /\ stdin_buf = <<>>
    /\ stdin_wire = <<>>
    /\ stdin_broken = FALSE
    /\ stdout = <<>>
    /\ stdout_closed = FALSE
    /\ outcome = NoOutcome
    /\ read_log = <<>>
    /\ invoked = <<>>
    /\ emitted = 0
    /\ regs = 0
    /\ requests = <<>>
    /\ stack = <<>>
    /\ sessions = {}
    /\ client = << >>
    /\ spawned = 0
    /\ given_extensions = <<>>
    /\ op = NoOp
    /\ fres = NoFRes

\* No MemoryFS is in use.
NoMemoryFS ==
    /\ files = << >>
    /\ file_order = <<>>
    /\ writable = FALSE
    /\ files0 = << >>
    /\ wlog = <<>>
    /\ vres = NoVRes
    /\ flat = NoFlat

Init == RpcInit /\ NoMemoryFS

\* The Sandbox operation blocked in call(), if any, goes on to its end when
\* the call ends with out.
FinishOf(o, out) ==
    /\ op' = NoOp
    /\ fres' = FacadeResult(o, out)
    /\ sessions' = SessionsAfter(o, out, sessions)
    /\ client' = ClientAfter(o, out, client, spawned)
    /\ spawned' = spawned
    /\ given_extensions' = given_extensions
    /\ proc' = ProcAfter(o, out, proc)

Finish(out) ==
    IF op = NoOp
    THEN UNCHANGED <<proc, sessions, client, spawned, given_extensions, op, fres>>
    ELSE FinishOf(op, out)

\* Mutant: call() does not test for the subprocess; it allocates the id and
\* writes the request whether or not there is one.
CallEnter_IgnoresProc(method, params, started) ==
    /\ req_id' = next_id
    /\ next_id' = next_id + 1
    /\ requests' = Append(requests, Request(next_id, method, params))
    /\ stdin_buf' = <<>>
    /\ stdin_wire' = stdin_buf \o <<Request(next_id, method, params)>>
    /\ pc' = "reading"
    /\ outcome' = NoOutcome
    /\ read_log' = <<>>
    /\ invoked' = <<>>

\* call() up to its first readline(). With no subprocess it raises before it
\* allocates an id; else it allocates the id and writes and flushes the
\* request line; on a broken pipe the flush raises out of call(), the id
\* spent.
CallEnter(method, params, started) ==
    /\ IF ~started
       THEN /\ outcome' = NotStartedOutcome
            /\ UNCHANGED <<next_id, pc, req_id, stdin_buf, stdin_wire, requests>>
       ELSE /\ req_id' = next_id
            /\ next_id' = NextId(next_id)
            /\ requests' = Append(requests, Request(next_id, method, params))
            /\ IF stdin_broken
               THEN /\ stdin_buf' = Append(stdin_buf, Request(next_id, method, params))
                    /\ stdin_wire' = <<>>
                    /\ pc' = "idle"
                    /\ outcome' = BrokenPipeOutcome
               ELSE /\ stdin_buf' = <<>>
                    /\ stdin_wire' = stdin_buf \o <<Request(next_id, method, params)>>
                    /\ pc' = "reading"
                    /\ outcome' = NoOutcome
    /\ read_log' = <<>>
    /\ invoked' = <<>>

\* RpcClient.register_extension_handler. Its one caller, the construction of
\* a Sandbox, registers before it issues the first call.
RegisterExtensionHandler(name, handler) ==
    /\ pc = "idle"
    /\ next_id = 1
    /\ regs < MaxRegs
    /\ regs' = regs + 1
    /\ extension_handlers' =
          [n \in DOMAIN extension_handlers \cup {name} |->
              IF n = name THEN handler ELSE extension_handlers[n]]
    /\ UNCHANGED <<proc, next_id, pc, req_id, stdin_buf, stdin_wire, stdin_broken,
                   stdout, stdout_closed, outcome, read_log, invoked,
                   emitted, requests, stack>>
    /\ UNCHANGED facadeVars
    /\ UNCHANGED vfsVars

\* RpcClient.start, which a Sandbox calls once, on a client it just made.
Start ==
    /\ pc = "idle"
    /\ proc = "none"
    /\ proc' = "running"
    /\ spawned' = spawned + 1
    /\ UNCHANGED <<next_id, extension_handlers, pc, req_id, stdin_buf, stdin_wire,
                   stdin_broken, stdout, stdout_closed, outcome, read_log,
                   invoked, emitted, regs, requests, stack>>
    /\ UNCHANGED <<sessions, client, given_extensions, op, fres>>
    /\ UNCHANGED vfsVars

\* call() with no subprocess: raises before it allocates an id.
CallNotStarted(method) ==
    /\ pc = "idle"
    /\ proc = "none"
    /\ CallEnter(method, NoCallParams, FALSE)
    /\ UNCHANGED <<proc, extension_handlers, stdin_broken, stdout, stdout_closed,
                   emitted, regs, stack>>
    /\ UNCHANGED facadeVars
    /\ UNCHANGED vfsVars

\* call(): allocate the id, write and flush the request line, enter the
\* loop.
CallStart(method) ==
    /\ pc = "idle"
    /\ next_id <= MaxCalls
    /\ proc = "running"
    /\ CallEnter(method, NoCallParams, TRUE)
    /\ UNCHANGED <<proc, extension_handlers, stdin_broken, stdout, stdout_closed,
                   emitted, regs, stack>>
    /\ UNCHANGED facadeVars
    /\ UNCHANGED vfsVars

\* The read loop: readline() returns nothing, the stream is closed.
ReadEof ==
    /\ pc = "reading"
    /\ stack = <<>>
    /\ stdout = <<>>
    /\ stdout_closed
    /\ pc' = "idle"
    /\ outcome' = EofOutcome
    /\ Finish(EofOutcome)
    /\ UNCHANGED <<next_id, extension_handlers, req_id, stdin_buf, stdin_wire,
                   stdin_broken, stdout, stdout_closed, read_log, invoked,
                   emitted, regs, requests, stack>>
    /\ UNCHANGED vfsVars

\* The read loop: json.loads raises on the line read, and so does call().
ReadUndecodable ==
    /\ pc = "reading"
    /\ stack = <<>>
    /\ stdout # <<>>
    /\ Head(stdout).dec # "object"
    /\ stdout' = Tail(stdout)
    /\ read_log' = Append(read_log, [msg |-> Head(stdout), as |-> "raise"])
    /\ pc' = "idle"
    /\ outcome' = UndecodableOutcome(Head(stdout))
    /\ Finish(UndecodableOutcome(Head(stdout)))
    /\ UNCHANGED <<next_id, extension_handlers, req_id, stdin_buf, stdin_wire,
                   stdin_broken, stdout_closed, invoked, emitted, regs, requests, stack>>
    /\ UNCHANGED vfsVars

\* The read loop: a callback request is serviced and the loop goes on,
\* unless the reply cannot be flushed. An invocation is logged with the
\* position in read_log of the line that caused it.
ReadCallback ==
    /\ pc = "reading"
    /\ stdout # <<>>
    /\ Head(stdout).dec = "object"
    /\ IsCallbackRequest(Head(stdout))
    /\ ~Reenters(Head(stdout), extension_handlers)
    /\ LET h == HandleCallback(Head(stdout), extension_handlers, stdin_broken)
       IN  /\ IF stdin_broken
              THEN /\ stdin_buf' = stdin_buf \o h.written
                   /\ stdin_wire' = stdin_wire
              ELSE /\ stdin_buf' = <<>>
                   /\ stdin_wire' = stdin_wire \o stdin_buf \o h.written
           /\ invoked' = invoked \o
                 [j \in 1..Len(h.calls) |-> [at |-> Len(read_log) + 1, call |-> h.calls[j]]]
           /\ IF h.escaped
              THEN pc' = "idle" /\ outcome' = h.exc /\ Finish(h.exc)
              ELSE UNCHANGED <<pc, outcome, proc, sessions, client, spawned,
                              given_extensions, op, fres>>
    /\ stdout' = Tail(stdout)
    /\ read_log' = Append(read_log, [msg |-> Head(stdout), as |-> "callback"])
    /\ UNCHANGED <<next_id, extension_handlers, req_id, stdin_broken,
                   stdout_closed, emitted, regs, requests, stack>>
    /\ UNCHANGED vfsVars

\* The read loop: any other line is the response; call() returns or raises.
ReadResponse ==
    /\ pc = "reading"
    /\ stack = <<>>
    /\ stdout # <<>>
    /\ Head(stdout).dec = "object"
    /\ ~IsCallbackRequest(Head(stdout))
    /\ stdout' = Tail(stdout)
    /\ read_log' = Append(read_log, [msg |-> Head(stdout), as |-> "response"])
    /\ pc' = "idle"
    /\ outcome' = ResponseOutcome(Head(stdout))
    /\ Finish(ResponseOutcome(Head(stdout)))
    /\ UNCHANGED <<next_id, extension_handlers, req_id, stdin_buf, stdin_wire,
                   stdin_broken, stdout_closed, invoked, emitted, regs, requests, stack>>
    /\ UNCHANGED vfsVars

\* The subprocess writes a line to its stdout. It writes in reaction to a
\* request; a line written while no call reads is seen by the next call as
\* if written when that call began, so it is written then.
ServerEmit(line) ==
    /\ proc = "running"
    /\ pc = "reading"
    /\ ~stdout_closed
    /\ emitted < MaxLines
    /\ emitted' = emitted + 1
    /\ stdout' = Append(stdout, line)
    /\ UNCHANGED <<proc, next_id, extension_handlers, pc, req_id, stdin_buf,
                   stdin_wire, stdin_broken, stdout_closed, outcome, read_log, invoked,
                   regs, requests, stack>>
    /\ UNCHANGED facadeVars
    /\ UNCHANGED vfsVars

\* The subprocess closes its stdout (it exits, or is terminated). call()
\* sees the closure once it has read the lines written before it, so the
\* closure is taken then.
ServerClose ==
    /\ proc = "running"
    /\ pc = "reading"
    /\ stdout = <<>>
    /\ ~stdout_closed
    /\ stdout_closed' = TRUE
    /\ UNCHANGED <<proc, next_id, extension_handlers, pc, req_id, stdin_buf,
                   stdin_wire, stdin_broken, stdout, outcome, read_log,
                   invoked, emitted, regs, requests, stack>>
    /\ UNCHANGED facadeVars
    /\ UNCHANGED vfsVars

Next ==
    \/ \E r \in Registrations : RegisterExtensionHandler(r[1], r[2])
    \/ Start
    \/ \E m \in Methods : CallNotStarted(m)
    \/ \E m \in Methods : CallStart(m)
    \/ ReadEof
    \/ ReadUndecodable
    \/ ReadCallback
    \/ ReadResponse
    \/ \E l \in ServerLines : ServerEmit(l)
    \/ ServerClose

Spec == Init /\ [][Next]_vars

\* The subprocess stops reading its stdin: every later flush raises
\* BrokenPipeError.
BreakStdin ==
    /\ proc = "running"
    /\ ~stdin_broken
    /\ stdin_broken' = TRUE
    /\ UNCHANGED <<proc, next_id, extension_handlers, pc, req_id, stdin_buf,
                   stdin_wire, stdout, stdout_closed, outcome, read_log, invoked,
                   emitted, regs, requests, stack>>
    /\ UNCHANGED facadeVars
    /\ UNCHANGED vfsVars

NextIO ==
    \/ Next
    \/ BreakStdin

\* The engine with a subprocess that may also stop reading its stdin.
SpecIO == Init /\ [][NextIO]_vars

---------------------------------------------------------------------------
(* The Sandbox objects on one RpcClient. *)

\* An operation of a Sandbox calls self._client.call(): the call raises at
\* once (no subprocess, or a broken pipe) and the operation goes on to its
\* end, or the call blocks in its first readline().
Operate(o) ==
    /\ pc = "idle"
    /\ op = NoOp
    /\ stack = <<>>
    /\ proc = "running" => next_id <= MaxOps
    /\ CallEnter(o.method, OpParams(o.method, o.sess), proc = "running")
    /\ IF proc = "running" /\ ~stdin_broken
       THEN /\ op' = o
            /\ UNCHANGED <<proc, sessions, client, spawned, given_extensions, fres>>
       ELSE FinishOf(o, IF proc = "running" THEN BrokenPipeOutcome ELSE NotStartedOutcome)
    /\ UNCHANGED <<extension_handlers, stdin_broken, stdout, stdout_closed,
                   emitted, regs, stack>>
    /\ UNCHANGED vfsVars

\* Sandbox.__init__ of a root Sandbox: a new RpcClient is started, the
\* command of each extension that has one is registered, "create" is called.
SandboxInit(extensions) ==
    /\ pc = "idle"
    /\ op = NoOp
    /\ proc = "none"
    /\ next_id = 1
    /\ sessions = {}
    /\ proc' = "running"
    /\ extension_handlers' = RegisterAll(extensions, extension_handlers)
    /\ regs' = regs + Len(SelectSeq(extensions, LAMBDA e : e.command # "None"))
    /\ CallEnter("create", CreateParams(extensions), TRUE)
    /\ given_extensions' = extensions
    /\ spawned' = spawned + 1
    /\ op' = Op("create", RootId, FALSE)
    /\ UNCHANGED <<stdin_broken, stdout, stdout_closed, emitted, stack, sessions,
                   client, fres>>
    /\ UNCHANGED vfsVars

\* commands.run, files.read/write/list/mkdir/rm/stat, mount, snapshot,
\* restore, export_state and import_state of the Sandbox s.
SandboxCall(s, method) ==
    /\ s \in sessions
    /\ Operate(Op(method, s, FALSE))

\* Sandbox.fork
Fork(s) ==
    /\ s \in sessions
    /\ Operate(Op("sandbox.fork", s, FALSE))

\* Sandbox.destroy: refused on a Sandbox with no id, before any call.
Destroy(s) ==
    /\ s \in sessions
    /\ IF DestroyRefused(s)
       THEN /\ pc = "idle"
            /\ op = NoOp
            /\ fres' = FRes(Op("sandbox.destroy", s, FALSE), "raised", "RuntimeError",
                            "Cannot destroy root sandbox; use kill() instead")
            /\ UNCHANGED <<sessions, client, spawned, given_extensions, op>>
            /\ UNCHANGED engineVars
            /\ UNCHANGED vfsVars
       ELSE Operate(Op("sandbox.destroy", s, FALSE))

\* Sandbox.kill
Kill(s) ==
    /\ s \in sessions
    /\ Operate(Op("kill", s, FALSE))

\* Sandbox.__exit__: destroy() with its errors swallowed on a Sandbox that
\* has an id, kill() on one that has none.
Exit(s) ==
    /\ s \in sessions
    /\ IF s # RootId
       THEN IF DestroyRefused(s)
            THEN /\ pc = "idle"
                 /\ op = NoOp
                 /\ fres' = FRes(Op("sandbox.destroy", s, TRUE), "returned", "", "")
                 /\ UNCHANGED <<sessions, client, spawned, given_extensions, op>>
                 /\ UNCHANGED engineVars
                 /\ UNCHANGED vfsVars
            ELSE Operate(Op("sandbox.destroy", s, TRUE))
       ELSE Operate(Op("kill", s, TRUE))

NextFacade ==
    \/ \E e \in ExtensionLists : SandboxInit(e)
    \/ \E s \in SandboxIds \cup {RootId} : \E m \in PlainMethods : SandboxCall(s, m)
    \/ \E s \in SandboxIds \cup {RootId} : Fork(s)
    \/ \E s \in SandboxIds \cup {RootId} : Destroy(s)
    \/ \E s \in SandboxIds \cup {RootId} : Kill(s)
    \/ \E s \in SandboxIds \cup {RootId} : Exit(s)
    \/ ReadEof
    \/ ReadUndecodable
    \/ ReadCallback
    \/ ReadResponse
    \/ \E l \in FacadeLines : ServerEmit(l)
    \/ ServerClose

\* The Sandbox operations of a single-threaded host on one subprocess that
\* may write any line.
SpecFacade == Init /\ [][NextFacade]_vars

\* The Sandbox operations, and call() used on the RpcClient itself while it
\* has no subprocess: before any Sandbox is made, or after kill().
NextStopped ==
    \/ NextFacade
    \/ \E m \in Methods : CallNotStarted(m)

SpecStopped == Init /\ [][NextStopped]_vars

---------------------------------------------------------------------------
(* A handler that calls back into the client. *)

\* An extension whose command, while it runs, runs a command on the root
\* Sandbox that registered it.
ReentrantExtensions == { <<Extension("nested", "reenter")>> }

\* The lines the subprocess may write to a host with such an extension.
ReentrantLines ==
    { CallbackLine(Cb1, "extension.invoke", NameParams("nested")),
      CallbackLine(Cb2, "fs.read", NameParams("nested")),
      ResponseLine(IntId(1), "r1", NoErr),
      ResponseLine(IntId(1), ForkResult("s1"), NoErr),
      ResponseLine(IntId(2), "r2", ErrObj(1, "ENOENT")),
      GarbageLine }

\* A call() suspended in _handle_callback: its request id and the callback
\* whose handler is running.
Frame(id, msg) == [req_id |-> id, msg |-> msg]

\* What the handler does with the end of the call it issued: it returns an
\* empty output when the call returned, and lets the exception of the call
\* pass when it raised.
ReenterResult(out) ==
    IF out.kind = "returned"
    THEN [raised |-> FALSE, value |-> Value(TRUE, <<>>, 0), message |-> ""]
    ELSE [raised |-> TRUE, value |-> NoValue, message |-> out.message]

\* The read loop reads a callback whose handler issues a call: call() is
\* entered again from inside _handle_callback, allocates the next id and
\* writes its request line while the call that read the callback waits.
ReadCallbackReenter ==
    /\ pc = "reading"
    /\ proc = "running"
    /\ ~stdin_broken
    /\ next_id <= MaxOps
    /\ stdout # <<>>
    /\ Head(stdout).dec = "object"
    /\ IsCallbackRequest(Head(stdout))
    /\ Reenters(Head(stdout), extension_handlers)
    /\ LET msg == Head(stdout)
           params == IF msg.params.t = "absent" THEN EmptyParams ELSE msg.params
           name == Get(params, "name", "")
           line == Request(next_id, "run", OpParams("run", RootId))
       IN  /\ stack' = Append(stack, Frame(req_id, msg))
           /\ req_id' = next_id
           /\ next_id' = NextId(next_id)
           /\ requests' = Append(requests, line)
           /\ stdin_buf' = <<>>
           /\ stdin_wire' = stdin_wire \o stdin_buf \o <<line>>
           /\ invoked' = Append(invoked,
                 [at |-> Len(read_log) + 1,
                  call |-> Invocation(name, extension_handlers[name],
                                      Get(params, "args", <<>>), Get(params, "stdin", <<>>),
                                      Get(params, "env", {}), Get(params, "cwd", "/"))])
    /\ stdout' = Tail(stdout)
    /\ read_log' = Append(read_log, [msg |-> Head(stdout), as |-> "callback"])
    /\ UNCHANGED <<proc, extension_handlers, pc, stdin_broken, stdout_closed,
                   outcome, emitted, regs>>
    /\ UNCHANGED facadeVars
    /\ UNCHANGED vfsVars

\* The read loop of the call a handler issued ends (closed stream,
\* undecodable line or response): the handler ends with it, its callback is
\* answered, and the suspended call() goes on reading.
NestedReturn ==
    /\ pc = "reading"
    /\ stack # <<>>
    /\ ~stdin_broken
    /\ \/ stdout = <<>> /\ stdout_closed
       \/ stdout # <<>> /\ Head(stdout).dec # "object"
       \/ stdout # <<>> /\ Head(stdout).dec = "object" /\ ~IsCallbackRequest(Head(stdout))
    /\ LET frame == stack[Len(stack)]
           out == IF stdout = <<>> THEN EofOutcome
                  ELSE IF Head(stdout).dec # "object" THEN UndecodableOutcome(Head(stdout))
                  ELSE ResponseOutcome(Head(stdout))
           r == ReenterResult(out)
           reply == IF r.raised
                    THEN SendCallbackError(frame.msg.id, <<r.message, "">>)
                    ELSE SendCallbackResult(frame.msg.id, r.value)
       IN  /\ stack' = SubSeq(stack, 1, Len(stack) - 1)
           /\ req_id' = frame.req_id
           /\ stdin_buf' = <<>>
           /\ stdin_wire' = stdin_wire \o stdin_buf \o <<reply>>
           /\ IF stdout = <<>>
              THEN UNCHANGED <<stdout, read_log>>
              ELSE /\ stdout' = Tail(stdout)
                   /\ read_log' = Append(read_log,
                         [msg |-> Head(stdout),
                          as |-> IF Head(stdout).dec # "object" THEN "raise" ELSE "response"])
    /\ UNCHANGED <<proc, next_id, extension_handlers, pc, stdin_broken, stdout_closed,
                   outcome, invoked, emitted, regs, requests>>
    /\ UNCHANGED facadeVars
    /\ UNCHANGED vfsVars

NextReentrant ==
    \/ \E e \in ReentrantExtensions : SandboxInit(e)
    \/ \E s \in SandboxIds \cup {RootId} : SandboxCall(s, "run")
    \/ \E s \in SandboxIds \cup {RootId} : Fork(s)
    \/ ReadEof
    \/ ReadUndecodable
    \/ ReadCallback
    \/ ReadResponse
    \/ ReadCallbackReenter
    \/ NestedReturn
    \/ \E l \in ReentrantLines : ServerEmit(l)
    \/ ServerClose

\* A single-threaded host whose extension command runs a command on the
\* Sandbox.
SpecReentrant == Init /\ [][NextReentrant]_vars

---------------------------------------------------------------------------
(* A subprocess that answers each request once, after some callbacks. *)

\* The methods the Sandboxes call on such a subprocess.
ServedMethods == {"run", "files.read"}

\* The result the subprocess gives to the request r: the object with the id
\* of the new sandbox for a fork, else a result of that request only.
ResultFor(r) ==
    IF r.method = "sandbox.fork"
    THEN ForkResult("s1")
    ELSE CASE r.id.n = 1 -> "r1"
           [] r.id.n = 2 -> "r2"
           [] r.id.n = 3 -> "r3"
           [] r.id.n = 4 -> "r4"
           [] OTHER -> "r5"

\* The subprocess has not yet answered the request it is working on.
Unanswered == \A i \in 1..Len(stdout) : IsCallbackRequest(stdout[i])

\* The subprocess, working on a request, invokes an extension of the host.
ServerCallback(line) ==
    /\ Unanswered
    /\ ServerEmit(line)

\* The subprocess answers the request it is working on, the last one
\* written, with a result or an error, under the id of that request.
ServerRespond(err) ==
    /\ proc = "running"
    /\ pc = "reading"
    /\ ~stdout_closed
    /\ Unanswered
    /\ LET r == requests[Len(requests)]
       IN  stdout' = Append(stdout,
              ResponseLine(r.id, IF err = NoErr THEN ResultFor(r) ELSE NoResult, err))
    /\ UNCHANGED <<proc, next_id, extension_handlers, pc, req_id, stdin_buf,
                   stdin_wire, stdin_broken, stdout_closed, outcome, read_log, invoked,
                   emitted, regs, requests, stack>>
    /\ UNCHANGED facadeVars
    /\ UNCHANGED vfsVars

NextServed ==
    \/ \E e \in ExtensionLists : SandboxInit(e)
    \/ \E s \in SandboxIds \cup {RootId} : \E m \in ServedMethods : SandboxCall(s, m)
    \/ \E s \in SandboxIds \cup {RootId} : Fork(s)
    \/ \E s \in SandboxIds \cup {RootId} : Kill(s)
    \/ ReadCallback
    \/ ReadResponse
    \/ ServerCallback(CallbackLine(Cb1, "extension.invoke", FullParams("upper")))
    \/ \E err \in {NoErr, ErrObj(1, "ENOENT")} : ServerRespond(err)

\* The Sandbox operations of a single-threaded host on a subprocess that
\* answers each request with one response after finitely many callbacks.
SpecServed == Init /\ [][NextServed]_vars

---------------------------------------------------------------------------
(* One MemoryFS and the calls made on it. *)

\* The paths handed to a MemoryFS.
Paths ==
    { <<>>,
      <<"a">>,
      <<"/", "a", "/">>,
      <<"a", "/", "b">>,
      <<".", "/", "a", "/", "/", "b">>,
      <<"b">> }

\* The contents handed to a MemoryFS: no byte, one byte, and a str whose
\* UTF-8 encoding has two bytes.
Datas == { Bytes(<<>>), Bytes(<<104>>), Str(<<233>>) }

\* The files dicts a MemoryFS is made with, as their items in order.
Seeds ==
    { <<>>,
      << <<<<"a", "/", "b">>, Bytes(<<104>>)>> >>,
      << <<<<"/", "a", "/">>, Str(<<233>>)>>, <<<<"a", "/", "b">>, Bytes(<<>>)>> >>,
      << <<<<"b">>, Bytes(<<104>>)>>, <<<<".", "/", "b">>, Bytes(<<>>)>> >> }

\* MemoryFS(files, writable=...)
InitVFS ==
    /\ RpcInit
    /\ \E seed \in Seeds :
          /\ files = Construct(seed, << >>)
          /\ file_order = ConstructOrder(seed, <<>>)
    /\ writable \in BOOLEAN
    /\ files0 = files
    /\ wlog = <<>>
    /\ vres = NoVRes
    /\ flat = NoFlat

\* MemoryFS.write_file(path, data)
WriteFile(path, data) ==
    /\ Len(wlog) < MaxWrites
    /\ files' = WriteFileStore(files, writable, path, data)
    /\ file_order' = WriteFileOrder(file_order, writable, path)
    /\ vres' = WriteFileResult(writable, path)
    /\ wlog' = Append(wlog, [path |-> path, data |-> data])
    /\ flat' = FlatAfterWrite(flat, WriteFileStore(files, writable, path, data))
    /\ UNCHANGED <<writable, files0>>
    /\ UNCHANGED engineVars
    /\ UNCHANGED facadeVars

\* MemoryFS.read_file(path)
ReadFile(path) ==
    /\ vres' = ReadFileResult(files, path)
    /\ UNCHANGED <<files, file_order, writable, files0, wlog, flat>>
    /\ UNCHANGED engineVars
    /\ UNCHANGED facadeVars

NextVFS ==
    \/ \E p \in Paths : \E d \in Datas : WriteFile(p, d)
    \/ \E p \in Paths : ReadFile(p)

\* A MemoryFS under any sequence of calls.
SpecVFS == InitVFS /\ [][NextVFS]_vars

---------------------------------------------------------------------------
(* One MemoryFS seen as a tree. *)

\* MemoryFS.readdir(path)
Readdir(path) ==
    /\ vres' = VRes("readdir", path, "ok", ReaddirEntries(file_order, path))
    /\ UNCHANGED <<files, file_order, writable, files0, wlog, flat>>
    /\ UNCHANGED engineVars
    /\ UNCHANGED facadeVars

\* MemoryFS.stat(path)
Stat(path) ==
    /\ vres' = StatResult(files, file_order, path)
    /\ UNCHANGED <<files, file_order, writable, files0, wlog, flat>>
    /\ UNCHANGED engineVars
    /\ UNCHANGED facadeVars

\* MemoryFS._to_flat_files()
ToFlatFiles ==
    /\ vres' = VRes("MemoryFS._to_flat_files", <<>>, "ok", MemoryToFlatFiles(files))
    /\ UNCHANGED <<files, file_order, writable, files0, wlog, flat>>
    /\ UNCHANGED engineVars
    /\ UNCHANGED facadeVars

\* VirtualFileSystem._to_flat_files(), the inherited walk, on the MemoryFS.
WalkFlatFiles ==
    /\ LET w == WalkToFlatFiles(files, file_order)
       IN  vres' = VRes("VirtualFileSystem._to_flat_files", <<>>, w.kind, w.files)
    /\ UNCHANGED <<files, file_order, writable, files0, wlog, flat>>
    /\ UNCHANGED engineVars
    /\ UNCHANGED facadeVars

\* The contents written to a MemoryFS that is listed.
TreeDatas == { Bytes(<<>>), Str(<<233>>) }

NextTree ==
    \/ \E p \in Paths : \E d \in TreeDatas : WriteFile(p, d)
    \/ \E p \in Paths : Readdir(p)
    \/ \E p \in Paths : Stat(p)
    \/ ToFlatFiles
    \/ WalkFlatFiles

\* A MemoryFS that is written to and listed.
SpecTree == InitVFS /\ [][NextTree]_vars

\* MemoryFS.exists(path)
Exists(path) ==
    /\ vres' = ExistsResult(files, path)
    /\ UNCHANGED <<files, file_order, writable, files0, wlog, flat>>
    /\ UNCHANGED engineVars
    /\ UNCHANGED facadeVars

NextAnswers ==
    \/ \E p \in Paths : \E d \in TreeDatas : WriteFile(p, d)
    \/ \E p \in Paths : Exists(p)
    \/ \E p \in Paths : Stat(p)
    \/ \E p \in Paths : Readdir(p)
    \/ \E p \in Paths : ReadFile(p)

\* A MemoryFS that is written to and asked about its paths.
SpecAnswers == InitVFS /\ [][NextAnswers]_vars

---------------------------------------------------------------------------
(* _normalize on its own. *)

\* The characters of the paths handed to _normalize.
PathChars == {"a", "/", "."}

\* Every path of at most MaxPath of these characters.
AllPaths == UNION {[1..k -> PathChars] : k \in 0..MaxPath}

\* No MemoryFS; a path is about to be normalized.
InitNormalize ==
    /\ RpcInit
    /\ files = << >>
    /\ file_order = <<>>
    /\ writable = FALSE
    /\ files0 = << >>
    /\ wlog = <<>>
    /\ flat = NoFlat
    /\ \E p \in AllPaths : vres = VRes("none", p, "none", <<>>)

\* _normalize(path), applied to the given path and then to what it returned.
NormalizePath ==
    /\ LET path == IF vres.op = "none" THEN vres.path ELSE vres.data
       IN  vres' = VRes("_normalize", path, "ok", Normalize(path))
    /\ UNCHANGED <<files, file_order, writable, files0, wlog, flat>>
    /\ UNCHANGED engineVars
    /\ UNCHANGED facadeVars

NextNormalize == NormalizePath

\* _normalize applied again and again to a path.
SpecNormalize == InitNormalize /\ [][NextNormalize]_vars

---------------------------------------------------------------------------
(* The read loop of a host thread that keeps running. *)

\* The lines the subprocess may write to it.
LiveLines ==
    { CallbackLine(Cb1, "extension.invoke", FullParams("upper")),
      CallbackLine(Cb2, "extension.invoke", NameParams("boom")),
      ResponseLine(IntId(1), "r1", NoErr),
      ResponseLine(IntId(1), "r1", ErrObj(1, "ENOENT")),
      GarbageLine }

NextLive ==
    \/ \E r \in Registrations : RegisterExtensionHandler(r[1], r[2])
    \/ Start
    \/ \E m \in Methods : CallStart(m)
    \/ ReadEof
    \/ ReadUndecodable
    \/ ReadCallback
    \/ ReadResponse
    \/ \E l \in LiveLines : ServerEmit(l)
    \/ ServerClose

\* call() runs on a thread of the host that is not stopped: readline()
\* returns once a line or the end of the stream is there, and the loop
\* goes on to handle what it returned. Nothing is assumed of the
\* subprocess.
SpecLive ==
    /\ Init
    /\ [][NextLive]_vars
    /\ WF_vars(ReadEof)
    /\ WF_vars(ReadUndecodable)
    /\ WF_vars(ReadCallback)
    /\ WF_vars(ReadResponse)

---------------------------------------------------------------------------
(* A Sandbox that mounts a MemoryFS. *)

\* The params of Sandbox.mount: {"path": path, "files": encoded}, through
\* _with_id.
MountParams(path, encoded, sandbox_id) ==
    [has |-> WithId(sandbox_id).has \cup {"path", "files"},
     sandboxId |-> WithId(sandbox_id).sandboxId,
     path |-> path,
     files |-> encoded]

\* Sandbox.mount(path, fs) with the MemoryFS: the flattening of the store is
\* taken, encoded, and handed to call("mount", ...).
Mount(s, path) ==
    /\ s \in sessions
    /\ pc = "idle"
    /\ op = NoOp
    /\ stack = <<>>
    /\ proc = "running" => next_id <= MaxOps
    /\ LET flat_files == ReturnedFlat(files).items
           encoded == EncodeFilesForRpc(flat_files)
           o == Op("mount", s, FALSE)
       IN  /\ CallEnter("mount", MountParams(path, encoded, s), proc = "running")
           /\ IF proc = "running" /\ ~stdin_broken
              THEN /\ op' = o
                   /\ UNCHANGED <<proc, sessions, client, spawned, given_extensions, fres>>
              ELSE FinishOf(o, IF proc = "running" THEN BrokenPipeOutcome
                               ELSE NotStartedOutcome)
    /\ UNCHANGED <<extension_handlers, stdin_broken, stdout, stdout_closed,
                   emitted, regs, stack>>
    /\ UNCHANGED vfsVars

\* The host takes the flattening itself and keeps it: held = fs._to_flat_files()
KeepFlatFiles ==
    /\ flat' = ReturnedFlat(files)
    /\ UNCHANGED <<files, file_order, writable, files0, wlog, vres>>
    /\ UNCHANGED engineVars
    /\ UNCHANGED facadeVars

\* The host assigns into the dict it holds: held[path] = data. The
\* assignment shows in the store when the dict is the store's own object.
ChangeFlat(path, data) ==
    /\ flat.obj # "none"
    /\ flat' = FlatDict(flat.obj, Store(flat.items, path, data))
    /\ IF flat.obj = "store"
       THEN /\ files' = Store(flat.items, path, data)
            /\ file_order' = Insert(file_order, path)
       ELSE UNCHANGED <<files, file_order>>
    /\ UNCHANGED <<writable, files0, wlog, vres>>
    /\ UNCHANGED engineVars
    /\ UNCHANGED facadeVars

\* The paths written to a MemoryFS that is mounted.
MountedPaths == { <<"a">>, <<"/", "a", "/">>, <<"a", "/", "b">> }

NextMount ==
    \/ SandboxInit(<<>>)
    \/ Mount(RootId, "/mnt")
    \/ \E p \in MountedPaths : WriteFile(p, Bytes(<<104>>))
    \/ KeepFlatFiles
    \/ ChangeFlat(<<"b">>, <<104>>)
    \/ ReadResponse
    \/ \E err \in {NoErr, ErrObj(1, "ENOENT")} : ServerRespond(err)

\* A Sandbox and a MemoryFS of one host: the MemoryFS is mounted, written to
\* and flattened, in any order.
SpecMount == InitVFS /\ [][NextMount]_vars

---------------------------------------------------------------------------
(* A root Sandbox made with extensions, some under one name. *)

\* The extensions lists: one extension with or without a command, two with
\* different names, and two with one name.
NamedExtensionLists ==
    { <<Extension("upper", "upper")>>,
      <<Extension("upper", "None")>>,
      <<Extension("upper", "upper"), Extension("boom", "None")>>,
      <<Extension("upper", "upper"), Extension("upper", "None")>>,
      <<Extension("upper", "upper"), Extension("upper", "boom")>> }

NextExtensions ==
    \/ \E e \in NamedExtensionLists : SandboxInit(e)
    \/ \E m \in ServedMethods : SandboxCall(RootId, m)
    \/ ReadCallback
    \/ ReadResponse
    \/ ServerCallback(CallbackLine(Cb1, "extension.invoke", FullParams("upper")))
    \/ \E err \in {NoErr, ErrObj(1, "ENOENT")} : ServerRespond(err)

\* A root Sandbox made with extensions on a subprocess that invokes them.
SpecExtensions == Init /\ [][NextExtensions]_vars

---------------------------------------------------------------------------
(* What the properties below read off the state. *)

\* The last line the call read.
LastRead == read_log[Len(read_log)]

\* The callback replies delivered to the subprocess during the call.
Replies == SelectSeq(stdin_wire, LAMBDA l : l.kind # "request")

\* The callback replies handed to stdin.write, delivered or not.
RepliesWritten(wire, buf) == SelectSeq(wire \o buf, LAMBDA l : l.kind # "request")

\* Line i of the call was serviced as a callback request.
CallbackAt(i) == i \in 1..Len(read_log) /\ read_log[i].as = "callback"

\* The name a callback's params give, "" when they give none.
NameAt(i) ==
    IF "name" \in read_log[i].msg.params.has THEN read_log[i].msg.params.name ELSE ""

\* The handler invocations made for line i of the call.
InvokedAt(i) == {j \in 1..Len(invoked) : invoked[j].at = i}

\* The call was not ended by line i: it still reads, or read on, or ended
\* later on the closed stream.
StillPendingAfter(i) ==
    \/ i < Len(read_log)
    \/ pc = "reading"
    \/ outcome = Outcome("RuntimeError", NoResult, 0, "Server closed connection")

---------------------------------------------------------------------------
(* C1. While a call is in flight and once it has ended, the lines on the      *)
(* subprocess's stdin since the call began are its one request line followed  *)
(* by exactly one reply per callback request read, in the order the callbacks *)
(* were read and each with its callback's id; a callback never ends the call; *)
(* and a call that returns returns the result of the response line, the last  *)
(* line it read.                                                              *)

C1_CallbacksAnsweredInOrder ==
    stdin_wire # <<>> =>
        /\ Head(stdin_wire).kind = "request"
        /\ Head(stdin_wire).id = IntId(req_id)
        /\ \A i \in 2..Len(stdin_wire) : stdin_wire[i].kind \in {"result", "error"}
        /\ LET cbs == SelectSeq(read_log, LAMBDA e : e.as = "callback")
           IN  /\ Len(Replies) = Len(cbs)
               /\ \A i \in 1..Len(cbs) : Replies[i].id = cbs[i].msg.id
        /\ \A i \in 1..Len(read_log) :
              IF read_log[i].as = "callback"
              THEN StillPendingAfter(i)
              ELSE i = Len(read_log) /\ pc = "idle"
        /\ (read_log # <<>> /\ LastRead.as = "response" /\ LastRead.msg.err.t = "absent")
              => outcome = Outcome("returned", LastRead.msg.result, 0, "")
        /\ outcome.kind = "returned"
              => /\ read_log # <<>>
                 /\ LastRead.as = "response"
                 /\ outcome.value = LastRead.msg.result

\* A call that serviced cb_1 and then cb_2 and returned the response's result.
C1_Witness ==
    /\ pc = "idle"
    /\ Len(read_log) = 3
    /\ CallbackAt(1) /\ read_log[1].msg.id = Cb1
    /\ CallbackAt(2) /\ read_log[2].msg.id = Cb2
    /\ Len(stdin_wire) = 3
    /\ outcome = Outcome("returned", "r1", 0, "")

(* C2. Every callback request the engine reads has exactly one reply line     *)
(* written for it, whatever the outcome of the dispatch, a failing flush of   *)
(* the reply included: servicing one callback adds exactly one reply to what  *)
(* has been written to the subprocess's stdin.                                *)

C2_ExactlyOneReply ==
    [][(Len(read_log') = Len(read_log) + 1 /\ read_log'[Len(read_log')].as = "callback")
          => Len(RepliesWritten(stdin_wire', stdin_buf'))
                = Len(RepliesWritten(stdin_wire, stdin_buf)) + 1]_vars

(* C3. A call that finds the subprocess's stdout closed with no line left to  *)
(* read can take that step, and leaves the read loop only by raising the      *)
(* RuntimeError "Server closed connection": it does not return a result.      *)

C3_ClosedStreamRaises ==
    /\ [](pc = "reading" /\ stdout = <<>> /\ stdout_closed => ENABLED ReadEof)
    /\ [][(pc = "reading" /\ stdout = <<>> /\ stdout_closed /\ pc' # pc)
             => outcome' = Outcome("RuntimeError", NoResult, 0, "Server closed connection")]_vars

\* The stream closed after a callback had been serviced, and the call raised.
C3_Witness ==
    /\ pc = "idle"
    /\ read_log # <<>>
    /\ LastRead.as = "callback"
    /\ Len(Replies) = Len(read_log)
    /\ outcome = Outcome("RuntimeError", NoResult, 0, "Server closed connection")

(* C4, as claimed. A response line with an error member makes the call raise  *)
(* RpcError with that code and message, and a call returns a result only from *)
(* a response line with no error member.                                      *)

C4_ErrorMemberRaises ==
    (pc = "idle" /\ read_log # <<>> /\ LastRead.as = "response") =>
        /\ LastRead.msg.err.t # "absent" =>
              outcome = Outcome("RpcError", NoResult, LastRead.msg.err.code,
                                LastRead.msg.err.message)
        /\ outcome.kind = "returned" => LastRead.msg.err.t = "absent"

(* C4, amended. A response line whose error member is a {code, message}       *)
(* object makes the call raise RpcError with that code and message and not    *)
(* return the line's result; a call returns a result only from a response     *)
(* line whose error member is absent or null, and then the line's result.     *)

C4_ErrorObjectRaises ==
    (pc = "idle" /\ read_log # <<>> /\ LastRead.as = "response") =>
        /\ LastRead.msg.err.t = "object" =>
              outcome = Outcome("RpcError", NoResult, LastRead.msg.err.code,
                                LastRead.msg.err.message)
        /\ outcome.kind = "returned" =>
              /\ LastRead.msg.err.t \in {"absent", "null"}
              /\ outcome.value = LastRead.msg.result
        /\ LastRead.msg.err.t \in {"absent", "null"} => outcome.kind = "returned"

\* A response line with both a result and an error object: RpcError(1, ENOENT).
C4_Witness ==
    /\ pc = "idle"
    /\ read_log # <<>>
    /\ LastRead.msg = ResponseLine(IntId(1), "r1", ErrObj(1, "ENOENT"))
    /\ outcome = Outcome("RpcError", NoResult, 1, "ENOENT")

(* C5. A call returns a result or raises RpcError only on a response line     *)
(* whose id is the id of the request the call wrote.                          *)

C5_ResolvedByMatchingId ==
    (pc = "idle" /\ read_log # <<>> /\ LastRead.as = "response"
        /\ outcome.kind \in {"returned", "RpcError"})
    => LastRead.msg.id = IntId(req_id)

(* C6, as claimed. A decoded line is serviced as a callback request exactly   *)
(* when its id is a string that starts with cb_.                              *)

C6_PrefixIsSoleDiscriminator ==
    \A i \in 1..Len(read_log) :
        read_log[i].msg.dec = "object" =>
            (read_log[i].as = "callback"
                <=> (read_log[i].msg.id.t = "str"
                        /\ StartsWith(read_log[i].msg.id.s, CbPrefix)))

(* C6, amended. A decoded line is serviced as a callback request exactly when *)
(* it has a method member and its id is a string that starts with cb_: such a *)
(* line is answered and never ends the call; every other decoded line is      *)
(* taken as the response and ends the call.                                   *)

C6_MethodAndPrefixDiscriminate ==
    \A i \in 1..Len(read_log) :
        read_log[i].msg.dec = "object" =>
            /\ read_log[i].as = "callback"
                  <=> (/\ read_log[i].msg.hasMethod
                       /\ read_log[i].msg.id.t = "str"
                       /\ StartsWith(read_log[i].msg.id.s, CbPrefix))
            /\ read_log[i].as = "callback" =>
                  /\ i <= Len(Replies)
                  /\ Replies[i].id = read_log[i].msg.id
                  /\ StillPendingAfter(i)
            /\ read_log[i].as # "callback" =>
                  /\ read_log[i].as = "response"
                  /\ i = Len(read_log)
                  /\ pc = "idle"
                  /\ outcome.kind \in {"returned", "RpcError", "TypeError"}

\* A line with the id cb_1 and no method member was taken as the response.
C6_Witness ==
    /\ pc = "idle"
    /\ read_log # <<>>
    /\ LastRead.msg = ResponseLine(Cb1, "r1", NoErr)
    /\ LastRead.as = "response"
    /\ outcome = Outcome("returned", "r1", 0, "")

\* Line i is an extension.invoke callback that names a registered extension.
DispatchedAt(i) ==
    /\ CallbackAt(i)
    /\ read_log[i].msg.method = "extension.invoke"
    /\ read_log[i].msg.params.t = "dict"
    /\ NameAt(i) \in DOMAIN extension_handlers

(* C7. When the handler of a registered extension raises, it was invoked      *)
(* once, its callback is answered with an error reply of code -32603 that     *)
(* carries the callback's id, the call is not ended by it, and a response     *)
(* line read later ends the call as it would have without the failure:        *)
(* its result returned, or its error object raised as RpcError.               *)

C7_HandlerRaiseIsAnswered ==
    \A i \in 1..Len(read_log) :
        (DispatchedAt(i) /\ extension_handlers[NameAt(i)] = "boom") =>
            /\ Cardinality(InvokedAt(i)) = 1
            /\ i <= Len(Replies)
            /\ Replies[i].kind = "error"
            /\ Replies[i].code = -32603
            /\ Replies[i].id = read_log[i].msg.id
            /\ Replies[i].message = <<"boom", "">>
            /\ StillPendingAfter(i)
            /\ (LastRead.as = "response" /\ LastRead.msg.err.t = "absent")
                  => outcome = Outcome("returned", LastRead.msg.result, 0, "")
            /\ (LastRead.as = "response" /\ LastRead.msg.err.t = "object")
                  => outcome = Outcome("RpcError", NoResult, LastRead.msg.err.code,
                                       LastRead.msg.err.message)

\* The handler raised for the first line, and the call returned "r1" later.
C7_Witness ==
    /\ Len(read_log) >= 2
    /\ DispatchedAt(1)
    /\ extension_handlers[NameAt(1)] = "boom"
    /\ LastRead.as = "response"
    /\ outcome = Outcome("returned", "r1", 0, "")

(* C8. An extension.invoke callback whose name has no registered handler is   *)
(* answered with an error reply whose message names that extension, no        *)
(* handler is invoked for it, and the call is not ended by it.                *)

C8_UnknownExtensionIsNamed ==
    \A i \in 1..Len(read_log) :
        (/\ CallbackAt(i)
         /\ read_log[i].msg.method = "extension.invoke"
         /\ read_log[i].msg.params.t \in {"dict", "absent"}
         /\ NameAt(i) \notin DOMAIN extension_handlers) =>
            /\ i <= Len(Replies)
            /\ Replies[i].kind = "error"
            /\ Replies[i].id = read_log[i].msg.id
            /\ Replies[i].message = <<"No handler for extension: ", NameAt(i)>>
            /\ InvokedAt(i) = {}
            /\ StillPendingAfter(i)

\* "upper" is asked for while only another extension is registered; the call
\* still reads.
C8_Witness ==
    /\ pc = "reading"
    /\ DOMAIN extension_handlers = {"boom"}
    /\ Len(read_log) = 1
    /\ CallbackAt(1)
    /\ NameAt(1) = "upper"
    /\ read_log[1].msg.method = "extension.invoke"
    /\ Replies = <<SendCallbackError(Cb1, <<"No handler for extension: ", "upper">>)>>

(* C9. A callback request whose method is not extension.invoke is answered    *)
(* with an error reply and no handler is invoked for it, also when its params *)
(* name a registered extension.                                               *)

C9_UnknownMethodIsRefused ==
    \A i \in 1..Len(read_log) :
        (CallbackAt(i) /\ read_log[i].msg.method # "extension.invoke") =>
            /\ i <= Len(Replies)
            /\ Replies[i].kind = "error"
            /\ Replies[i].id = read_log[i].msg.id
            /\ InvokedAt(i) = {}
            /\ StillPendingAfter(i)

\* An fs.read callback names "upper" while "upper" is registered.
C9_Witness ==
    /\ Len(read_log) >= 1
    /\ CallbackAt(1)
    /\ read_log[1].msg.method = "fs.read"
    /\ NameAt(1) = "upper"
    /\ "upper" \in DOMAIN extension_handlers
    /\ Replies[1].kind = "error"

\* Line i gave the handler these arguments: its params, or the defaults.
ArgsAt(i) ==
    LET p == read_log[i].msg.params
    IN  [args |-> IF "args" \in p.has THEN p.args ELSE <<>>,
         stdin |-> IF "stdin" \in p.has THEN p.stdin ELSE <<>>,
         env |-> IF "env" \in p.has THEN p.env ELSE {},
         cwd |-> IF "cwd" \in p.has THEN p.cwd ELSE "/"]

\* The one invocation made for line i had the arguments of line i.
InvokedOnceWithParamsAt(i) ==
    /\ Cardinality(InvokedAt(i)) = 1
    /\ \A j \in InvokedAt(i) :
          /\ invoked[j].call.name = NameAt(i)
          /\ invoked[j].call.handler = extension_handlers[NameAt(i)]
          /\ invoked[j].call.args = ArgsAt(i).args
          /\ invoked[j].call.stdin = ArgsAt(i).stdin
          /\ invoked[j].call.env = ArgsAt(i).env
          /\ invoked[j].call.cwd = ArgsAt(i).cwd

(* C10, as claimed. For an extension.invoke callback that names a registered  *)
(* extension whose handler returns, the handler is invoked once with the      *)
(* args, stdin, env and cwd of the params, and the reply is a result reply.   *)

C10_ReturnValueIsTheResult ==
    \A i \in 1..Len(read_log) :
        (DispatchedAt(i) /\ extension_handlers[NameAt(i)] \in {"upper", "bytes"}) =>
            /\ InvokedOnceWithParamsAt(i)
            /\ i <= Len(Replies)
            /\ Replies[i].kind = "result"
            /\ Replies[i].id = read_log[i].msg.id

(* C10, amended. For an extension.invoke callback that names a registered     *)
(* extension whose handler returns, the handler is invoked once with the      *)
(* args, stdin, env and cwd of the params (the defaults for those absent);    *)
(* a returned value that JSON can encode is the result of the reply,          *)
(* unchanged ("upper" on stdin hello: stdout HELLO, exitCode 0), and a        *)
(* returned value that JSON cannot encode is answered with an error reply.    *)

C10_EncodableReturnValueIsTheResult ==
    \A i \in 1..Len(read_log) :
        (DispatchedAt(i) /\ extension_handlers[NameAt(i)] \in {"upper", "bytes"}) =>
            /\ InvokedOnceWithParamsAt(i)
            /\ i <= Len(Replies)
            /\ Replies[i].id = read_log[i].msg.id
            /\ extension_handlers[NameAt(i)] = "upper" =>
                  /\ Replies[i].kind = "result"
                  /\ Replies[i].result = Value(TRUE, Upper(ArgsAt(i).stdin), 0)
                  /\ ArgsAt(i).stdin = <<"h", "e", "l", "l", "o">>
                        => Replies[i].result.stdout = <<"H", "E", "L", "L", "O">>
            /\ extension_handlers[NameAt(i)] = "bytes" =>
                  /\ Replies[i].kind = "error"
                  /\ Replies[i].code = -32603

\* "upper" was invoked on stdin hello and the reply carries HELLO, 0.
C10_Witness ==
    /\ Len(read_log) >= 1
    /\ DispatchedAt(1)
    /\ extension_handlers[NameAt(1)] = "upper"
    /\ Cardinality(InvokedAt(1)) = 1
    /\ invoked[1].call.stdin = <<"h", "e", "l", "l", "o">>
    /\ Replies[1] = SendCallbackResult(Cb1, Value(TRUE, <<"H", "E", "L", "L", "O">>, 0))

---------------------------------------------------------------------------
(* C11. The request lines one engine has written carry integer ids that      *)
(* strictly increase in the order written, whichever Sandbox (the root or a  *)
(* fork) issued the call and however the earlier calls ended; the request at *)
(* the head of the pipe is the latest one written, with the id the call in   *)
(* flight holds, and the counter is past every id handed out.                *)

C11_RequestIdsIncrease ==
    /\ \A i \in 1..Len(requests) :
          /\ requests[i].kind = "request"
          /\ requests[i].id.t = "int"
          /\ requests[i].id.n < next_id
          /\ \A j \in 1..Len(requests) : i < j => requests[i].id.n < requests[j].id.n
    /\ (pc = "reading" /\ stack = <<>>) =>
          /\ Head(stdin_wire) = requests[Len(requests)]
          /\ Head(stdin_wire).id = IntId(req_id)

\* Three requests: the root's create and fork, then a call of the fork s1
\* that the subprocess refused with an error.
C11_Witness ==
    /\ Len(requests) = 3
    /\ requests[2].params.has = {}
    /\ requests[3].params.sandboxId = "s1"
    /\ requests[3].id = IntId(3)
    /\ pc = "idle"
    /\ outcome.kind = "RpcError"

---------------------------------------------------------------------------
\* C12 (as stated): no request line is written on an engine while an earlier
\* call on it has neither returned nor raised, whether the new call comes
\* from the root session, from a fork or from inside a callback handler.
C12_OneCallInFlight ==
    [][Len(requests') > Len(requests) => pc = "idle"]_vars

\* C12 (amended): a call of a session writes its request line only when no
\* call is pending on the engine; the one request line written while a call
\* is pending is that of a call issued by the handler of a registered
\* extension while its `extension.invoke` callback is serviced, and the
\* engine writes it, leaving the pending call suspended.
C12_OneCallInFlightButHandlers ==
    [][Len(requests') > Len(requests) =>
          \/ /\ pc = "idle"
             /\ stack = <<>>
             /\ op = NoOp
             /\ stack' = <<>>
          \/ /\ pc = "reading"
             /\ stdout # <<>>
             /\ Head(stdout).dec = "object"
             /\ Head(stdout).hasMethod
             /\ Head(stdout).method = "extension.invoke"
             /\ Head(stdout).id.t = "str"
             /\ StartsWith(Head(stdout).id.s, CbPrefix)
             /\ Head(stdout).params.t = "dict"
             /\ "name" \in Head(stdout).params.has
             /\ Head(stdout).params.name \in DOMAIN extension_handlers
             /\ extension_handlers[Head(stdout).params.name] = "reenter"
             /\ stack' = Append(stack, Frame(req_id, Head(stdout)))
             /\ op' = op
             /\ pc' = "reading"
             /\ Len(requests') = Len(requests) + 1]_vars

\* The handler's call is in flight while the sandbox.fork call that read
\* the callback is pending.
C12_Witness ==
    /\ pc = "reading"
    /\ Len(stack) = 1
    /\ op.method = "sandbox.fork"
    /\ requests[Len(requests)].id = IntId(req_id)
    /\ stack[1].req_id = req_id - 1

---------------------------------------------------------------------------
\* C13: destroy() on the root Sandbox (no session id) raises at once the
\* error of a violated precondition and issues no RPC call: no request line
\* is written or buffered and the next request id stays as it was.
C13_RootDestroyIsRefused ==
    [][(\/ op'.method = "sandbox.destroy" /\ op'.sess = RootId
        \/ /\ fres' # fres
           /\ fres'.method = "sandbox.destroy"
           /\ fres'.sess = RootId)
       => /\ pc = "idle"
          /\ op = NoOp
          /\ op' = NoOp
          /\ fres'.kind = "raised"
          /\ fres'.exc = "RuntimeError"
          /\ fres'.message = "Cannot destroy root sandbox; use kill() instead"
          /\ UNCHANGED <<next_id, req_id, requests, stdin_wire, stdin_buf, pc,
                         outcome, proc, sessions>>]_vars

\* destroy() was refused on a root whose one request so far is its create.
C13_Witness ==
    /\ fres.method = "sandbox.destroy"
    /\ fres.sess = RootId
    /\ fres.kind = "raised"
    /\ proc = "running"
    /\ next_id = 2
    /\ Len(requests) = 1
    /\ requests[1].method = "create"

---------------------------------------------------------------------------
\* C14 (as stated): every request a Sandbox operation writes carries the
\* session id of its Sandbox in its params when the Sandbox was made by
\* fork (kill included), and no session id when it is the root.
C14_SessionIdThreaded ==
    [][(Len(requests') > Len(requests) /\ op' # NoOp) =>
          LET r == requests'[Len(requests')]
          IN  IF op'.sess = RootId
              THEN "sandboxId" \notin r.params.has
              ELSE /\ "sandboxId" \in r.params.has
                   /\ r.params.sandboxId = op'.sess]_vars

---------------------------------------------------------------------------
\* C15: kill() never raises, however its `kill` call ended (an error of the
\* subprocess, a closed stream, an undecodable line, no subprocess), and
\* leaves the client without a subprocess, also when it is called again;
\* __exit__ never raises, whether it runs destroy() or kill().
C15_TeardownNeverRaises ==
    /\ fres.method = "kill" => (fres.kind = "returned" /\ proc = "none")
    /\ fres.exit => fres.kind = "returned"
    /\ (op.method = "kill" \/ op.exit) => (pc = "reading" /\ proc = "running")

\* kill() returned although the subprocess answered its call with an error.
C15_Witness ==
    /\ fres.method = "kill"
    /\ fres.kind = "returned"
    /\ outcome.kind = "RpcError"
    /\ proc = "none"
    /\ pc = "idle"

---------------------------------------------------------------------------
\* C16 (as stated): a call that reads a line it cannot decode fails with the
\* error kind of a closed stream, a kind other than that of an error the
\* subprocess reports, and ends there: nothing more is written or read
\* for it.
C16_UndecodableIsTransportError ==
    (pc = "idle" /\ read_log # <<>> /\ LastRead.as = "raise") =>
        /\ outcome.kind = EofOutcome.kind
        /\ outcome.kind # "RpcError"
        /\ Len(requests) = req_id

---------------------------------------------------------------------------
\* C17: with the calls of the root Sandbox and its forks made one after the
\* other and a subprocess that answers each request once after finitely
\* many callbacks, each call ends on the response to its own request: the
\* operation of a Sandbox returns the result given to the request that
\* Sandbox issued (or raises the error given to it), never the response to
\* a request of another Sandbox.
C17_OwnResponse ==
    [][(pc = "reading" /\ pc' = "idle") =>
          LET r == requests[req_id]
              last == read_log'[Len(read_log')]
          IN  /\ op # NoOp
              /\ r.id = IntId(req_id)
              /\ r.method = op.method
              /\ r.params = IF op.method = "create"
                            THEN CreateParams(given_extensions)
                            ELSE OpParams(op.method, op.sess)
              /\ last.as = "response"
              /\ last.msg.id = r.id
              /\ IF last.msg.err = NoErr
                 THEN /\ outcome'.kind = "returned"
                      /\ outcome'.value = ResultFor(r)
                      /\ fres'.kind = "returned"
                 ELSE /\ outcome'.kind = "RpcError"
                      /\ outcome'.code = last.msg.err.code
              /\ fres'.method = op.method
              /\ fres'.sess = op.sess]_vars

\* The call of a fork returned the result of its own request, the third on
\* the engine, after a callback was serviced.
C17_Witness ==
    /\ pc = "idle"
    /\ fres.sess = "s1"
    /\ fres.method = "run"
    /\ fres.kind = "returned"
    /\ outcome.value = "r3"
    /\ Len(read_log) = 2
    /\ read_log[1].as = "callback"

---------------------------------------------------------------------------
\* The write_file calls so far whose path normalizes to the path p.
WritesTo(p) == {i \in 1..Len(wlog) : Normalize(wlog[i].path) = p}

\* The latest of them.
LastWriteTo(p) == CHOOSE i \in WritesTo(p) : \A j \in WritesTo(p) : j <= i

\* C18: on a writable MemoryFS, read_file(p) after any sequence of writes
\* returns the data of the last write whose path normalizes to the same
\* path as p: exactly the bytes written (the zero-length sequence
\* included), and the UTF-8 encoding of a str that was written.
C18_LastWriteWins ==
    (writable /\ vres.op = "read_file" /\ WritesTo(Normalize(vres.path)) # {}) =>
        LET w == wlog[LastWriteTo(Normalize(vres.path))]
        IN  /\ vres.kind = "ok"
            /\ w.data.t = "bytes" => vres.data = w.data.v
            /\ w.data = Str(<<233>>) => vres.data = <<195, 169>>

\* read_file("a") returned the zero-length data written last under "/a/",
\* after an earlier write of other data under "a".
C18_Witness ==
    /\ writable
    /\ vres = VRes("read_file", <<"a">>, "ok", <<>>)
    /\ Len(wlog) = 2
    /\ wlog[1] = [path |-> <<"a">>, data |-> Bytes(<<104>>)]
    /\ wlog[2] = [path |-> <<"/", "a", "/">>, data |-> Bytes(<<>>)]

---------------------------------------------------------------------------
\* C19: on a read-only MemoryFS every write_file fails with
\* PermissionError and leaves the store as it was, so after any sequence of
\* calls the store is the one the MemoryFS was constructed with.
C19_ReadOnlyStoreIsFixed ==
    ~writable =>
        /\ files = files0
        /\ vres.op = "write_file" => vres.kind = "PermissionError"

\* Two writes were refused on a read-only MemoryFS made with two files.
C19_Witness ==
    /\ ~writable
    /\ Len(wlog) = 2
    /\ vres.op = "write_file"
    /\ vres.kind = "PermissionError"
    /\ DOMAIN files0 = {<<"a">>, <<"a", "/", "b">>}
    /\ Normalize(wlog[2].path) = <<"a">>

---------------------------------------------------------------------------
\* C20 (as stated): read_file fails with IsADirectoryError for every path
\* that is a directory (the root, and every strict prefix of a stored
\* path), with FileNotFoundError for every path neither stored nor a
\* directory, and returns the stored bytes otherwise.
C20_ReadFileKinds ==
    vres.op = "read_file" =>
        LET p == Normalize(vres.path)
            dir == p = <<>> \/ \E f \in DOMAIN files : StartsWith(f, p \o <<"/">>)
        IN  IF dir
            THEN vres.kind = "IsADirectoryError"
            ELSE IF p \in DOMAIN files
            THEN vres.kind = "ok" /\ vres.data = files[p]
            ELSE vres.kind = "FileNotFoundError"

---------------------------------------------------------------------------
\* The stored paths strictly below the directory p, each without the
\* prefix that leads to p.
Below(p) ==
    LET prefix == IF p # <<>> THEN p \o <<"/">> ELSE <<>>
    IN  {Drop(f, Len(prefix)) : f \in {g \in DOMAIN files : StartsWith(g, prefix) /\ g # prefix}}

\* The first segment of a path.
FirstSegment(rest) == Split(rest)[1]

\* The entries of a listing, as a set.
Entries(listing) == {listing[i] : i \in 1..Len(listing)}

\* C21 (as stated): readdir of a directory returns one entry for each
\* distinct first segment of the stored paths below it, none twice and
\* none left out, of type dir when some stored path goes on past that
\* segment and of type file otherwise, whatever the order of the stores.
C21_ReaddirGroupsByFirstSegment ==
    vres.op = "readdir" =>
        LET below == Below(Normalize(vres.path))
        IN  /\ Cardinality(Entries(vres.data)) = Len(vres.data)
            /\ \A i, j \in 1..Len(vres.data) :
                  vres.data[i].name = vres.data[j].name => i = j
            /\ {e.name : e \in Entries(vres.data)} = {FirstSegment(r) : r \in below}
            /\ \A e \in Entries(vres.data) :
                  e.type = IF \E r \in below : FirstSegment(r) = e.name /\ Len(Split(r)) > 1
                           THEN "dir"
                           ELSE "file"

---------------------------------------------------------------------------
\* The immediate children of the directory p: the distinct first segments
\* of the stored paths below it.
Children(p) == {FirstSegment(r) : r \in Below(p)}

---------------------------------------------------------------------------
\* C23 (as stated): for every store of a MemoryFS the generic recursive
\* walk, driven by its readdir and read_file, yields the same mapping from
\* path to bytes as the MemoryFS's own flattening: the whole store.
C23_WalkEqualsStore ==
    /\ vres.op = "MemoryFS._to_flat_files" => vres.data = files
    /\ vres.op = "VirtualFileSystem._to_flat_files" =>
          /\ vres.kind = "ok"
          /\ vres.data = MemoryToFlatFiles(files)

---------------------------------------------------------------------------
\* The segment of the path s that begins at i has the characters seg.
SegmentAt(s, i, seg) ==
    /\ i + Len(seg) - 1 <= Len(s)
    /\ SubSeq(s, i, i + Len(seg) - 1) = seg
    /\ i = 1 \/ s[i - 1] = "/"
    /\ i + Len(seg) - 1 = Len(s) \/ s[i + Len(seg)] = "/"

\* The number of segments of s that are seg.
CountSegments(s, seg) == Cardinality({i \in 1..Len(s) : SegmentAt(s, i, seg)})

\* C24: _normalize returns a path with no leading, trailing or doubled
\* separator and no "." segment, keeps every ".." segment and every other
\* segment as it is, and returns a path it returned unchanged.
C24_NormalizeIsIdempotent ==
    vres.op = "_normalize" =>
        /\ vres.data # <<>> => (vres.data[1] # "/" /\ vres.data[Len(vres.data)] # "/")
        /\ \A i \in 1..(Len(vres.data) - 1) : ~(vres.data[i] = "/" /\ vres.data[i + 1] = "/")
        /\ CountSegments(vres.data, <<".">>) = 0
        /\ CountSegments(vres.data, <<".", ".">>) = CountSegments(vres.path, <<".", ".">>)
        /\ SelectSeq(vres.data, LAMBDA c : c = "a") = SelectSeq(vres.path, LAMBDA c : c = "a")
        /\ Len(SelectSeq(vres.data, LAMBDA c : c = ".")) =
              Len(SelectSeq(vres.path, LAMBDA c : c = ".")) - CountSegments(vres.path, <<".">>)
        /\ (/\ vres.path # <<>> => (vres.path[1] # "/" /\ vres.path[Len(vres.path)] # "/")
            /\ \A i \in 1..(Len(vres.path) - 1) : ~(vres.path[i] = "/" /\ vres.path[i + 1] = "/")
            /\ CountSegments(vres.path, <<".">>) = 0)
           => vres.data = vres.path

\* "./.." was normalized to "..".
C24_Witness ==
    vres = VRes("_normalize", <<".", "/", ".", ".">>, "ok", <<".", ".">>)

---------------------------------------------------------------------------
\* C25: every handler of a root Sandbox is in the registry when its create
\* request is written, and from then on no operation of a Sandbox and no
\* servicing of a callback adds, removes or replaces a binding.
C25_RegistryFixedAfterCreate ==
    /\ [](requests # <<>> =>
            /\ requests[1].method = "create"
            /\ Cardinality(DOMAIN extension_handlers) = regs)
    /\ [][requests # <<>> => extension_handlers' = extension_handlers]_vars

\* A handler registered by the constructor was invoked during a kill, the
\* third call on the engine.
C25_Witness ==
    /\ Len(requests) = 3
    /\ DOMAIN extension_handlers = {"upper"}
    /\ regs = 1
    /\ fres.method = "kill"
    /\ invoked # <<>>
    /\ invoked[1].call.handler = "upper"

---------------------------------------------------------------------------
\* The subprocess has written, after the callbacks, something that ends the
\* call: a line that is no callback request, or the end of its stdout.
EndIsWritten ==
    \/ stdout_closed
    \/ \E i \in 1..Len(stdout) :
          \/ stdout[i].dec # "object"
          \/ ~(/\ stdout[i].hasMethod
               /\ stdout[i].id.t = "str"
               /\ StartsWith(stdout[i].id.s, CbPrefix))

\* C26: a call whose subprocess has written finitely many callback requests
\* and then a response, or has closed its stdout, eventually returns or
\* raises, every handler invoked on the way returning or raising; and a
\* call whose subprocess has written nothing more and has not closed the
\* stream stays blocked in its read: the engine does not give it up.
C26_CallTerminates ==
    /\ (pc = "reading" /\ EndIsWritten) ~> (pc = "idle" /\ outcome # NoOutcome)
    /\ [][(pc = "reading" /\ stdout = <<>> /\ ~stdout_closed) =>
             (pc' = "reading" /\ outcome' = outcome /\ read_log' = read_log
              /\ req_id' = req_id)]_vars

\* A call ended with the result of its response after two callbacks, one
\* of them to a handler that raised.
C26_Witness ==
    /\ pc = "idle"
    /\ outcome.kind = "returned"
    /\ Len(read_log) = 3
    /\ read_log[1].as = "callback"
    /\ read_log[2].as = "callback"
    /\ read_log[2].msg.id = Cb2
    /\ DOMAIN extension_handlers = {"boom"}
    /\ Len(invoked) = 1

---------------------------------------------------------------------------
\* The lines of the call that were serviced as callback requests.
CallbacksRead == SelectSeq(read_log, LAMBDA e : e.as = "callback")

\* C27: a call writes one request line, with the id it allocated, before it
\* reads any line; every other line it writes is the reply to a callback
\* request it has read, one per callback; it writes no second request.
C27_OneRequestPerCall ==
    /\ []((pc = "reading" \/ (pc = "idle" /\ outcome # NoOutcome /\ outcome # NotStartedOutcome)) =>
            /\ stdin_wire # <<>>
            /\ stdin_wire[1] = requests[Len(requests)]
            /\ stdin_wire[1].kind = "request"
            /\ stdin_wire[1].id = IntId(req_id)
            /\ \A i \in 2..Len(stdin_wire) :
                  /\ stdin_wire[i].kind \in {"result", "error"}
                  /\ stdin_wire[i].id = CallbacksRead[i - 1].msg.id
            /\ Len(stdin_wire) = 1 + Len(CallbacksRead)
            /\ stdin_buf = <<>>)
    /\ [][Len(requests') > Len(requests) =>
             /\ pc = "idle"
             /\ Len(requests') = Len(requests) + 1
             /\ stdin_wire' = <<requests'[Len(requests')]>>
             /\ read_log' = <<>>]_vars

\* The second call of a run has written its request and two replies.
C27_Witness ==
    /\ pc = "reading"
    /\ req_id = 2
    /\ Len(stdin_wire) = 3
    /\ stdin_wire[2].kind = "result"
    /\ stdin_wire[3].kind = "error"
    /\ Len(requests) = 2

---------------------------------------------------------------------------
\* The step reads a line and services it as a callback request.
ServicesCallback ==
    /\ Len(read_log') = Len(read_log) + 1
    /\ read_log'[Len(read_log')].as = "callback"

\* C28: servicing a callback request changes nothing else of the engine: from
\* before the callback line is read to after its reply is written the next
\* request id, the registry and the id of the pending call are the same, the
\* call is still pending, and the one line written is the reply.
C28_ServicingLeavesEngineState ==
    [][ServicesCallback =>
          /\ next_id' = next_id
          /\ extension_handlers' = extension_handlers
          /\ req_id' = req_id
          /\ pc = "reading" /\ pc' = "reading"
          /\ outcome' = outcome
          /\ proc' = proc
          /\ requests' = requests
          /\ Len(stdin_wire') = Len(stdin_wire) + 1
          /\ stdin_wire'[Len(stdin_wire')].kind \in {"result", "error"}
          /\ stdin_wire'[Len(stdin_wire')].id = Head(stdout).id]_vars

\* The second call of a run has serviced a callback whose handler raised:
\* the error reply is written and the call still waits under its id 2, with
\* the registry holding its handler.
C28_Witness ==
    /\ pc = "reading"
    /\ req_id = 2
    /\ next_id = 3
    /\ extension_handlers # << >>
    /\ Len(read_log) = 1
    /\ read_log[1].as = "callback"
    /\ Len(invoked) = 1
    /\ stdin_wire[Len(stdin_wire)].kind = "error"

---------------------------------------------------------------------------
\* C29: while the engine has no subprocess (never started, or stopped by
\* kill() through any Sandbox sharing it) a call raises RuntimeError at once:
\* it reads and writes nothing, allocates no id and never blocks, whichever
\* Sandbox, root or fork, makes it; only kill() and the destroy() of
\* __exit__, which swallow the error, and the refused destroy() of the root
\* end otherwise.
C29_StoppedEngineRaises ==
    [][(proc = "none" /\ proc' = "none") =>
          /\ next_id' = next_id
          /\ requests' = requests
          /\ stdin_wire' = stdin_wire
          /\ stdin_buf' = stdin_buf
          /\ stdout' = stdout
          /\ req_id' = req_id
          /\ pc = "idle" /\ pc' = "idle"
          /\ op' = NoOp
          /\ (outcome' # outcome =>
                /\ outcome'.kind = "RuntimeError"
                /\ outcome'.message = "RPC client not started")
          /\ (fres' # fres =>
                \/ /\ fres'.kind = "raised"
                   /\ fres'.exc = "RuntimeError"
                   /\ fres'.message = "RPC client not started"
                   /\ outcome'.kind = "RuntimeError"
                \/ /\ fres'.kind = "returned"
                   /\ (fres'.method = "kill" \/ (fres'.method = "sandbox.destroy" /\ fres'.exit))
                \/ /\ fres'.kind = "raised"
                   /\ fres'.method = "sandbox.destroy"
                   /\ fres'.sess = RootId
                   /\ fres'.message = "Cannot destroy root sandbox; use kill() instead")]_vars

\* After kill() on the root, a command run on the fork raised: three ids
\* were spent (create, fork, kill) and the fourth is still the next.
C29_Witness ==
    /\ proc = "none"
    /\ sessions = {RootId, "s1"}
    /\ fres = FRes(Op("run", "s1", FALSE), "raised", "RuntimeError", "RPC client not started")
    /\ next_id = 4
    /\ Len(requests) = 3
    /\ requests[3].method = "kill"

---------------------------------------------------------------------------
\* The lines of the call that ended it as its response.
ResponsesRead == SelectSeq(read_log, LAMBDA e : e.as = "response")

\* The operation before the pending one raised the error the subprocess
\* reported.
AfterRemoteError == op # NoOp /\ fres.kind = "raised" /\ fres.exc = "RpcError"

\* C30: a call that ended with the error the subprocess reported has spent
\* one id and read one response line, the one with its id, and left nothing
\* unread; the next call on the engine writes its request under the next id
\* and ends with the response to that request.
C30_UsableAfterRemoteError ==
    /\ []((pc = "idle" /\ outcome.kind = "RpcError") =>
            /\ next_id = req_id + 1
            /\ Len(ResponsesRead) = 1
            /\ LastRead.as = "response"
            /\ LastRead.msg.id = IntId(req_id)
            /\ stdout = <<>>
            /\ ~stdout_closed
            /\ (proc = "running" \/ fres.method = "kill"))
    /\ [][(pc = "idle" /\ outcome.kind = "RpcError" /\ pc' = "reading") =>
             /\ req_id' = req_id + 1
             /\ next_id' = next_id + 1
             /\ stdin_wire' = <<requests'[Len(requests')]>>
             /\ requests'[Len(requests')].id = IntId(req_id + 1)
             /\ stdout' = <<>>
             /\ read_log' = <<>>]_vars
    /\ [][(AfterRemoteError /\ pc = "reading" /\ pc' = "idle") =>
             /\ LastRead'.msg.id = IntId(req_id)
             /\ requests[Len(requests)].id = IntId(req_id)
             /\ Len(ResponsesRead') = 1
             /\ (outcome'.kind = "returned" =>
                    outcome'.value = ResultFor(requests[Len(requests)]))
             /\ stdout' = <<>>]_vars

\* The command with the id 2 raised the error the subprocess reported; the
\* next one wrote its request under the id 3, serviced a callback, and the
\* one line left to read is the response to the request 3.
C30_Witness ==
    /\ AfterRemoteError
    /\ fres.method = "run"
    /\ pc = "reading"
    /\ req_id = 3
    /\ next_id = 4
    /\ Len(CallbacksRead) = 1
    /\ stdout = <<ResponseLine(IntId(3), "r3", NoErr)>>
    /\ requests[3].id = IntId(3)

---------------------------------------------------------------------------
\* The step enters the call() of an __exit__ on a running engine.
ExitCalls == op = NoOp /\ op' # NoOp /\ op'.exit

\* The step ends an __exit__ that was blocked in call().
ExitEnds == op # NoOp /\ op.exit /\ op' = NoOp

\* C31: on a running engine, __exit__ of a forked Sandbox writes one
\* sandbox.destroy request with that Sandbox's id, writes no other request
\* before it returns, returns however the call ended and leaves the
\* subprocess and the Sandboxes as they were; __exit__ of the root writes
\* kill and leaves no subprocess.
C31_ExitOfForkKeepsEngine ==
    /\ [][ExitCalls =>
             /\ proc = "running" /\ proc' = "running"
             /\ Len(requests') = Len(requests) + 1
             /\ LET r == requests'[Len(requests')]
                IN  IF op'.sess # RootId
                    THEN /\ r.method = "sandbox.destroy"
                         /\ r.params = CallParams({"sandboxId"}, op'.sess)
                    ELSE r.method = "kill"]_vars
    /\ [][(op # NoOp /\ op.exit) => requests' = requests]_vars
    /\ [][ExitEnds =>
             /\ fres'.kind = "returned"
             /\ sessions' = sessions
             /\ IF op.sess # RootId
                THEN /\ op.method = "sandbox.destroy"
                     /\ proc = "running" /\ proc' = "running"
                     /\ ~stdin_broken
                     /\ extension_handlers' = extension_handlers
                     /\ next_id' = next_id
                ELSE /\ op.method = "kill"
                     /\ proc' = "none"]_vars

\* The fork left its context while the subprocess answered its destroy with
\* an error: the exit returned, the third request is the destroy of s1, and
\* the subprocess still runs for the root.
C31_Witness ==
    /\ fres = FRes(Op("sandbox.destroy", "s1", TRUE), "returned", "", "")
    /\ outcome.kind = "RpcError"
    /\ proc = "running"
    /\ sessions = {RootId, "s1"}
    /\ Len(requests) = 3
    /\ requests[3].method = "sandbox.destroy"
    /\ requests[3].params = CallParams({"sandboxId"}, "s1")
    /\ op = NoOp

---------------------------------------------------------------------------
\* The create requests written: one by each construction of a root Sandbox.
RootsConstructed == Len(SelectSeq(requests, LAMBDA r : r.method = "create"))

\* The step is part of a fork(): it enters its call, ends it, or is refused
\* by a stopped engine.
ForkStep ==
    \/ op'.method = "sandbox.fork"
    \/ op.method = "sandbox.fork"
    \/ (fres' # fres /\ fres'.method = "sandbox.fork")

\* C32: fork() starts no subprocess and makes no RpcClient or registry: every
\* Sandbox made holds the RpcClient of the root, whatever forks, destroys and
\* other operations were run, and as many subprocesses were started as root
\* Sandboxes were constructed.
C32_ForksShareTheEngine ==
    /\ [](/\ DOMAIN client = sessions
          /\ \A s \in sessions : RootId \in sessions /\ client[s] = client[RootId]
          /\ spawned = RootsConstructed)
    /\ [][ForkStep => UNCHANGED <<proc, spawned, extension_handlers>>]_vars
    /\ [][spawned' # spawned =>
             /\ spawned' = spawned + 1
             /\ proc = "none" /\ proc' = "running"
             /\ requests'[Len(requests')].method = "create"]_vars

\* The root forked, and the fork was destroyed: both Sandboxes hold the one
\* RpcClient, whose subprocess is the only one started.
C32_Witness ==
    /\ sessions = {RootId, "s1"}
    /\ client["s1"] = 1
    /\ client[RootId] = 1
    /\ spawned = 1
    /\ proc = "running"
    /\ Len(requests) = 3
    /\ requests[2].method = "sandbox.fork"
    /\ fres = FRes(Op("sandbox.destroy", "s1", FALSE), "returned", "", "")

---------------------------------------------------------------------------
\* C33: every key of the store is a normalized path that names a file: it
\* is its own normal form, stat gives it the type file, and it is no
\* directory, neither the root nor a strict prefix of another key; paths
\* with one normal form share one entry, which holds the last data written.
C33_KeysAreNormalizedFiles ==
    /\ \A k \in DOMAIN files :
          /\ Normalize(k) = k
          /\ StatResult(files, file_order, k).kind = "ok"
          /\ StatResult(files, file_order, k).data.type = "file"
          /\ ~IsDir(files, k)
    /\ \A i \in 1..Len(wlog) :
          (writable /\ \A j \in (i + 1)..Len(wlog) :
                          Normalize(wlog[j].path) # Normalize(wlog[i].path))
          => /\ Normalize(wlog[i].path) \in DOMAIN files
             /\ files[Normalize(wlog[i].path)] = Encode(wlog[i].data)

---------------------------------------------------------------------------
\* The path of an entry of the listing of d: d + "/" + name.
EntryPath(d, name) == d \o <<"/">> \o name

\* C34 (as stated): in every store, exists(p) is true exactly when stat(p)
\* succeeds; and every entry of a listing has the type stat gives to its
\* path, and read_file of that path succeeds exactly when the type is file,
\* also for a stored path that is a strict prefix of another.
C34_AnswersAgree ==
    /\ \A p \in Paths :
          ExistsResult(files, p).data = (StatResult(files, file_order, p).kind = "ok")
    /\ vres.op = "readdir" =>
          \A i \in 1..Len(vres.data) :
             LET e == vres.data[i]
                 q == EntryPath(vres.path, e.name)
                 st == StatResult(files, file_order, q)
             IN  /\ st.kind = "ok"
                 /\ st.data.type = e.type
                 /\ (ReadFileResult(files, q).kind = "ok") = (e.type = "file")

---------------------------------------------------------------------------
\* The step enters the call() of a mount on a running engine.
MountCalls == op = NoOp /\ op'.method = "mount"

\* C35: mount writes one request, method mount, whose files are the store
\* as it is at the call, each content base64-encoded, and writes no other
\* request before it ends; the dict a flattening returns and the store are
\* two objects, a change of one leaves the other as it was; and write_file
\* writes no request, touches no pipe and spends no id.
C35_MountSendsFlatteningOnce ==
    /\ [][MountCalls =>
             /\ Len(requests') = Len(requests) + 1
             /\ LET r == requests'[Len(requests')]
                IN  /\ r.method = "mount"
                    /\ r.params.path = "/mnt"
                    /\ r.params.files = [k \in DOMAIN files |-> Base64(files[k])]
                    /\ stdin_wire' = <<r>>
             /\ UNCHANGED <<files, file_order, flat>>]_vars
    /\ [][op.method = "mount" => requests' = requests]_vars
    /\ [][wlog' # wlog =>
             UNCHANGED <<requests, stdin_wire, stdin_buf, next_id, req_id, pc, op,
                         stdout, outcome>>]_vars
    /\ [][files' # files => flat' = flat]_vars
    /\ [][flat' # flat => files' = files]_vars

\* The store {"a/b": b"h"} was flattened by the host and mounted, the mount
\* returned, and then "a" was written: the one mount request holds a/b only,
\* the dict the host holds too, and the store holds both.
C35_Witness ==
    /\ Len(requests) = 2
    /\ requests[2].method = "mount"
    /\ requests[2].params.files = (<<"a", "/", "b">> :> <<"a", "A", "=", "=">>)
    /\ pc = "idle"
    /\ fres = FRes(Op("mount", RootId, FALSE), "returned", "", "")
    /\ Len(wlog) = 1
    /\ DOMAIN files = {<<"a">>, <<"a", "/", "b">>}
    /\ flat = FlatDict("new", (<<"a", "/", "b">> :> <<104>>))

---------------------------------------------------------------------------
\* C36: when the create call of a root Sandbox's construction fails, the
\* constructor raises the error of the call and the subprocess it started
\* does not stay running: no Sandbox was made and no subprocess is left.
C36_FailedCreateStopsEngine ==
    (fres.method = "create" /\ fres.kind = "raised") =>
        /\ fres.exc = outcome.kind
        /\ fres.message = outcome.message
        /\ sessions = {}
        /\ proc = "none"

---------------------------------------------------------------------------
\* C37 (as stated): once create is written, its extensions hold one spec per
\* extension passed, whose hasCommand is true exactly when a handler is
\* registered under the extension's name, and that handler is the
\* extension's own command, also when extensions share a name.
C37_AdvertisedAgreesWithRegistry ==
    (requests # <<>> /\ requests[1].method = "create") =>
        LET specs == requests[1].params.extensions
        IN  /\ Len(specs) = Len(given_extensions)
            /\ \A i \in 1..Len(given_extensions) :
                  LET ext == given_extensions[i]
                  IN  /\ specs[i].name = ext.name
                      /\ specs[i].hasCommand = (ext.name \in DOMAIN extension_handlers)
                      /\ specs[i].hasCommand => extension_handlers[ext.name] = ext.command

====
